---- MODULE Spec2Model ----
(***************************************************************************)
(* boost::container::multiarray<Element, Rank, Container>: a container     *)
(* adapter that overlays a run-time shape (extents, priorities, cached      *)
(* strides) on a linear container.  Two adapter objects, a and b, of the    *)
(* same type are modelled; every member function is called on a (the        *)
(* object "*this"), and swap exchanges a with b.  size_type is an unsigned  *)
(* integer of SizeBits bits, so its arithmetic is taken modulo 2^SizeBits.  *)
(***************************************************************************)
EXTENDS Integers, Sequences, FiniteSets, TLC

VARIABLES a, b, last

vars == <<a, b, last>>

\* ---------------------------------------------------------------- bounds
\* Width of size_type in bits.
SizeBits == 3
\* Largest index value tried by the element accessors.
MaxIdx == 1
\* Length of the container the object a is constructed from.
MaxLen == 2

\* ------------------------------------------------------- program constants
\* multiarray<T, 2, array<T, 18>>: the number of index coordinates.
Rank == 2

\* enum { extents_i, priorities_i, strides_i } names the rows of stats; the
\* rows are the fields extents_i, priorities_i and strides_i of a record.

\* std::numeric_limits<size_type>::max()
SizeMax == 2^SizeBits - 1

\* unsigned arithmetic of size_type wraps at this value
Modulus == SizeMax + 1

\* the index positions 0 .. dimensionality - 1 of a stats_type
Dims == 0 .. (Rank - 1)

\* ---------------------------------------------------------------- inputs
\* extent values offered to the setters
ExtVals == {0, 1, 2, SizeMax}
\* stats_type values offered as extents
ExtInputs == [Dims -> ExtVals]
\* stats_type values offered as priorities (Rank is the out-of-range value)
PriInputs == [Dims -> 0 .. Rank]
\* index lists offered to the accessors: any length up to Rank + 1
IdxInputs == UNION { [1 .. n -> 0 .. MaxIdx] : n \in 0 .. (Rank + 1) }
\* what undefined behaviour may yield in place of an element position:
\* a reference to something that is no element (-1), or a fault (-2)
UBVals == {-1, -2}
\* placeholder for an offset or an element position a call did not produce
NoPos == -3
\* placeholder for an argument or a result that a call does not have
None == "none"

\* ------------------------------------------------ multiarray_indexed_base
\* std::iota( ..., size_type(0) ): row-major order
row_major_order == [d \in Dims |-> d]

\* x = dimensionality - i++ for each x: one too large everywhere
column_major_order_from_rank == [d \in Dims |-> Rank - d]

\* x = dimensionality - 1u - i++ for each x: column-major order
column_major_order == [d \in Dims |-> Rank - 1 - d]

\* required_size() reading the least-major index instead of the most-major
required_size_least_major(stats) ==
    LET minor_index == stats.priorities_i[Rank - 1]
    IN  (stats.extents_i[minor_index] * stats.strides_i[minor_index]) % Modulus

\* required_size(): extent times stride of the most-major index
required_size(stats) ==
    LET major_index == stats.priorities_i[0]
    IN  (stats.extents_i[major_index] * stats.strides_i[major_index]) % Modulus

\* the loop of update_extents comparing with >= : a product equal to the
\* maximum is refused
RECURSIVE extents_limit_loop_ge(_, _, _)
extents_limit_loop_ge(e, i, limit) ==
    IF i = Rank THEN [overflow |-> FALSE, limits |-> <<>>]
    ELSE IF e[i] >= SizeMax \div limit
    THEN [overflow |-> TRUE, limits |-> <<>>]
    ELSE LET next_limit == (limit * e[i]) % Modulus
             rest == extents_limit_loop_ge(e, i + 1, next_limit)
         IN  [overflow |-> rest.overflow,
              limits |-> <<next_limit>> \o rest.limits]

\* The loop of update_extents from position i on, limit being the running
\* product: whether the throw is reached, and the values limit is given.
RECURSIVE extents_limit_loop(_, _, _)
extents_limit_loop(e, i, limit) ==
    IF i = Rank THEN [overflow |-> FALSE, limits |-> <<>>]
    ELSE IF e[i] > SizeMax \div limit
    THEN [overflow |-> TRUE, limits |-> <<>>]
    ELSE LET next_limit == (limit * e[i]) % Modulus
             rest == extents_limit_loop(e, i + 1, next_limit)
         IN  [overflow |-> rest.overflow,
              limits |-> <<next_limit>> \o rest.limits]

\* update_extents throwing invalid_argument for a zero extent
update_extents_wrong_exception(stats, e) ==
    IF \E d \in Dims : e[d] = 0
    THEN [thrown |-> "invalid_argument", stats |-> stats]
    ELSE IF extents_limit_loop(e, 0, 1).overflow
    THEN [thrown |-> "overflow_error", stats |-> stats]
    ELSE [thrown |-> None, stats |-> [stats EXCEPT !.extents_i = e]]

\* update_extents: validate e, then copy it into the extents row
update_extents(stats, e) ==
    IF \E d \in Dims : e[d] = 0
    THEN [thrown |-> "out_of_range", stats |-> stats]
    ELSE IF extents_limit_loop(e, 0, 1).overflow
    THEN [thrown |-> "overflow_error", stats |-> stats]
    ELSE [thrown |-> None, stats |-> [stats EXCEPT !.extents_i = e]]

\* std::is_permutation(pb, pe, row_major_order.begin()): the same values
\* with the same multiplicities
is_permutation(p, q) ==
    \A v \in {p[d] : d \in Dims} \cup {q[d] : d \in Dims} :
        Cardinality({d \in Dims : p[d] = v})
            = Cardinality({d \in Dims : q[d] = v})

\* update_priorities without the is_permutation test
update_priorities_no_permutation_test(stats, p) ==
    IF \E d \in Dims : p[d] >= Rank
    THEN [thrown |-> "out_of_range", stats |-> stats]
    ELSE [thrown |-> None, stats |-> [stats EXCEPT !.priorities_i = p]]

\* update_priorities with the range test x > dimensionality
update_priorities_gt(stats, p) ==
    IF \E d \in Dims : p[d] > Rank
    THEN [thrown |-> "out_of_range", stats |-> stats]
    ELSE IF ~ is_permutation(p, row_major_order)
    THEN [thrown |-> "invalid_argument", stats |-> stats]
    ELSE [thrown |-> None, stats |-> [stats EXCEPT !.priorities_i = p]]

\* update_priorities: validate p, then copy it into the priorities row
update_priorities(stats, p) ==
    IF \E d \in Dims : p[d] >= Rank
    THEN [thrown |-> "out_of_range", stats |-> stats]
    ELSE IF ~ is_permutation(p, row_major_order)
    THEN [thrown |-> "invalid_argument", stats |-> stats]
    ELSE [thrown |-> None, stats |-> [stats EXCEPT !.priorities_i = p]]

\* std::accumulate( extents, size_type(1), std::multiplies ) from position i
RECURSIVE extents_product(_, _, _)
extents_product(ext, i, acc) ==
    IF i = Rank THEN acc
    ELSE extents_product(ext, i + 1, (acc * ext[i]) % Modulus)

\* the loop of recalculate_strides storing the product before the division
RECURSIVE strides_loop_before_division(_, _, _, _)
strides_loop_before_division(stats, i, product, strides) ==
    IF i = Rank THEN strides
    ELSE LET which_index == stats.priorities_i[i]
             quotient == product \div stats.extents_i[which_index]
         IN  strides_loop_before_division(
                 stats, i + 1, quotient,
                 [strides EXCEPT ![which_index] = product])

\* the loop of recalculate_strides from priority position i on
RECURSIVE strides_loop(_, _, _, _)
strides_loop(stats, i, product, strides) ==
    IF i = Rank THEN strides
    ELSE LET which_index == stats.priorities_i[i]
             quotient == product \div stats.extents_i[which_index]
         IN  strides_loop(stats, i + 1, quotient,
                          [strides EXCEPT ![which_index] = quotient])

\* recalculate_strides taking the indexes in their own order, whatever the
\* priorities are
recalculate_strides_in_index_order(stats) ==
    [stats EXCEPT !.strides_i =
        strides_loop([stats EXCEPT !.priorities_i = row_major_order], 0,
                     extents_product(stats.extents_i, 0, 1), stats.strides_i)]

\* recalculate_strides: rebuild the strides row from the other two
recalculate_strides(stats) ==
    [stats EXCEPT !.strides_i =
        strides_loop(stats, 0, extents_product(stats.extents_i, 0, 1),
                     stats.strides_i)]

\* multiarray_indexed_base(): all extents 1, row-major, all strides 1
multiarray_indexed_base ==
    [extents_i |-> [d \in Dims |-> 1],
     priorities_i |-> row_major_order,
     strides_i |-> [d \in Dims |-> 1]]

\* throw_for_bad_indexes comparing with std::greater
throw_for_bad_indexes_gt(stats, i) ==
    IF Len(i) # Rank THEN "length_error"
    ELSE IF \E k \in 1 .. Len(i) : i[k] > stats.extents_i[k - 1]
    THEN "out_of_range"
    ELSE None

\* throw_for_bad_indexes comparing the indexes before counting them
throw_for_bad_indexes_range_first(stats, i) ==
    IF \E k \in 1 .. Len(i) : k <= Rank /\ i[k] >= stats.extents_i[k - 1]
    THEN "out_of_range"
    ELSE IF Len(i) # Rank THEN "length_error"
    ELSE None

\* throw_for_bad_indexes: the exception for the index list i, if any
throw_for_bad_indexes(stats, i) ==
    IF Len(i) # Rank THEN "length_error"
    ELSE IF \E k \in 1 .. Len(i) : i[k] >= stats.extents_i[k - 1]
    THEN "out_of_range"
    ELSE None

\* std::inner_product( ib, ie, strides, size_type(0) ) from position k on
RECURSIVE inner_product(_, _, _, _)
inner_product(i, strides, k, acc) ==
    IF k > Len(i) THEN acc
    ELSE inner_product(i, strides, k + 1,
                       (acc + i[k] * strides[k - 1]) % Modulus)

\* indexes_to_offset multiplying with the extents row instead of the strides
indexes_to_offset_by_extents(stats, i) ==
    inner_product(i, stats.extents_i, 1, 0)

\* indexes_to_offset: only defined when the list is no longer than a row
indexes_to_offset(stats, i) == inner_product(i, stats.strides_i, 1, 0)

\* get_offset: the check of at, then the offset.  A list longer than a row
\* of stats makes inner_product read past the array: no defined offset.
get_offset(stats, i, throw_on_bad_input) ==
    LET bad == IF throw_on_bad_input
               THEN throw_for_bad_indexes(stats, i) ELSE None
    IN  IF bad # None THEN [thrown |-> bad, offsets |-> {NoPos}]
        ELSE IF Len(i) > Rank THEN [thrown |-> None, offsets |-> UBVals]
        ELSE [thrown |-> None, offsets |-> {indexes_to_offset(stats, i)}]

\* std::advance( ci, offset ); return *ci: the element positions the
\* dereference may denote (outside the container it is undefined)
dereference(c, offset) ==
    IF offset >= 0 /\ offset < Len(c) THEN {offset} ELSE UBVals

\* ------------------------------------------------------------- multiarray
\* resize_to_fit putting the size into the last extent instead of the first
resize_to_fit_last(c, stats) ==
    LET new_size == IF Rank # 0 /\ Len(c) # 0 THEN Len(c) ELSE 1
        e == [d \in Dims |-> IF d = Rank - 1 THEN new_size ELSE 1]
    IN  recalculate_strides(update_extents(stats, e).stats)

\* resize_to_fit: extents {size or 1, 1, ..., 1}
resize_to_fit(c, stats) ==
    LET new_size == IF Rank # 0 /\ Len(c) # 0 THEN Len(c) ELSE 1
        e == [d \in Dims |-> IF d = 0 THEN new_size ELSE 1]
    IN  recalculate_strides(update_extents(stats, e).stats)

\* multiarray( cc ): the container, then the base, then resize_to_fit
multiarray(cc) ==
    [c |-> cc, stats |-> resize_to_fit(cc, multiarray_indexed_base)]

\* the container given to the constructor of a: 1, 2, ..., MaxLen
ContainerA == [k \in 1 .. MaxLen |-> k]

\* the containers a constructor may be given: the prefixes of ContainerA
Containers == {SubSeq(ContainerA, 1, n) : n \in 0 .. MaxLen}

\* multiarray( cc ) and multiarray( std::move(cc) ); multiarray() is "default"
CtorForms == {"copy", "move"}

\* ------------------------------------------- multiarray<T, 0, Container>
\* stats[ 3 ][ dimensionality + !dimensionality ]: with dimensionality 0
\* each row keeps one entry, at position 0
Dims0 == {0}

\* multiarray_indexed_base() with dimensionality 0: std::fill and std::iota
\* run over the one entry of each row
rank0_multiarray_indexed_base ==
    [extents_i |-> [d \in Dims0 |-> 1],
     priorities_i |-> [d \in Dims0 |-> 0],
     strides_i |-> [d \in Dims0 |-> 1]]

\* required_size() with dimensionality 0 reads entry 0 of each row
rank0_required_size(stats) ==
    LET major_index == stats.priorities_i[0]
    IN  (stats.extents_i[major_index] * stats.strides_i[major_index]) % Modulus

\* update_extents( eb, ee ) with eb = ee: std::find finds no zero, the loop
\* multiplies nothing, std::copy copies nothing
rank0_update_extents(stats) == [thrown |-> None, stats |-> stats]

\* update_priorities( pb, pe ) with pb = pe: std::find_if finds nothing, the
\* empty range is a permutation of the empty range, std::copy copies nothing
rank0_update_priorities(stats) == [thrown |-> None, stats |-> stats]

\* recalculate_strides() with dimensionality 0: std::accumulate runs over
\* the one entry of the extents row, the loop i < dimensionality never runs
rank0_recalculate_strides(stats) ==
    LET product == (1 * stats.extents_i[0]) % Modulus
    IN  IF 0 < 0 THEN [stats EXCEPT !.strides_i[0] = product] ELSE stats

\* resize_to_fit() with dimensionality 0: new_size is 1, e is empty, so
\* extents( e ) is update_extents of nothing and recalculate_strides
rank0_resize_to_fit(c, stats) ==
    rank0_recalculate_strides(rank0_update_extents(stats).stats)

\* multiarray<T, 0, Container>( cc )
rank0_multiarray(cc) ==
    [c |-> cc, stats |-> rank0_resize_to_fit(cc, rank0_multiarray_indexed_base)]

\* the stats a multiarray<T, 0, Container> may have after one more call of
\* extents, priorities, use_row_major_order, use_column_major_order or
\* extents_and_priorities (fill, apply and the accessors are const on stats,
\* swap exchanges stats with an object of the same type)
rank0_setters(stats) ==
    {rank0_recalculate_strides(rank0_update_extents(stats).stats),
     rank0_recalculate_strides(rank0_update_priorities(stats).stats),
     rank0_recalculate_strides(
         rank0_update_priorities(rank0_update_extents(stats).stats).stats)}

\* extents( e ) calling recalculate_strides before update_extents
do_extents_recalculate_first(stats, e) ==
    update_extents(recalculate_strides(stats), e)

\* extents( e ) without recalculate_strides
do_extents_stale(stats, e) == update_extents(stats, e)

\* extents( e ): update_extents, then recalculate_strides unless it threw
do_extents(stats, e) ==
    LET r == update_extents(stats, e)
    IN  IF r.thrown # None THEN r
        ELSE [thrown |-> None, stats |-> recalculate_strides(r.stats)]

\* priorities( p ): update_priorities, then recalculate_strides unless it
\* threw
do_priorities(stats, p) ==
    LET r == update_priorities(stats, p)
    IN  IF r.thrown # None THEN r
        ELSE [thrown |-> None, stats |-> recalculate_strides(r.stats)]

\* extents_and_priorities( e, p ) leaving the priorities as they are
do_extents_and_priorities_extents_only(stats, e, p) ==
    LET r == update_extents(stats, e)
    IN  IF r.thrown # None THEN r
        ELSE [thrown |-> None, stats |-> recalculate_strides(r.stats)]

\* extents_and_priorities( e, p ) without the catch block
do_extents_and_priorities_no_rollback(stats, e, p) ==
    LET r1 == update_extents(stats, e)
        r2 == update_priorities(r1.stats, p)
    IN  IF r1.thrown # None THEN r1
        ELSE IF r2.thrown # None THEN r2
        ELSE [thrown |-> None, stats |-> recalculate_strides(r2.stats)]

\* extents_and_priorities( e, p ): an exception of update_extents leaves at
\* once; one of update_priorities is caught, the saved extents are put back
\* and it is thrown again; otherwise the strides are recalculated
do_extents_and_priorities(stats, e, p) ==
    LET save == stats.extents_i
        r1 == update_extents(stats, e)
        r2 == update_priorities(r1.stats, p)
        r3 == update_extents(r2.stats, save)
    IN  IF r1.thrown # None THEN r1
        ELSE IF r2.thrown # None
        THEN [thrown |-> IF r3.thrown # None THEN r3.thrown ELSE r2.thrown,
              stats |-> r3.stats]
        ELSE [thrown |-> None, stats |-> recalculate_strides(r2.stats)]

\* the values offered to fill
FillVals == {0}

\* std::min( x, y )
min(x, y) == IF y < x THEN y ELSE x

\* std::fill_n( std::begin(c), n, v ): assigns v to the first n elements
fill_n(c, n, v) == [k \in 1 .. Len(c) |-> IF k <= n THEN v ELSE c[k]]

\* fill( v ) assigning to every element of the container
do_fill_all(obj, v) == fill_n(obj.c, Len(obj.c), v)

\* fill( v ): the container after the call
do_fill(obj, v) ==
    fill_n(obj.c, min(required_size(obj.stats), Len(obj.c)), v)

\* first_index_pack(): stats_type{}, every index zero
first_index_pack == [d \in Dims |-> 0]

\* the loop of advance_index_pack, for ( i = dimensionality ; i-- ; ), with
\* i priority positions still to visit: the indexes and the turnover flag
RECURSIVE advance_loop(_, _, _, _)
advance_loop(stats, indexes, i, turnover) ==
    IF i = 0 THEN [indexes |-> indexes, turnover |-> turnover]
    ELSE LET index == stats.priorities_i[i - 1]
             incremented ==
                 (indexes[index] + (IF turnover THEN 1 ELSE 0)) % Modulus
             new_turnover == incremented >= stats.extents_i[index]
             reset == IF new_turnover THEN 0 ELSE incremented
         IN  advance_loop(stats, [indexes EXCEPT ![index] = reset], i - 1,
                          new_turnover)

\* the loop of advance_index_pack going from the most-major index to the
\* least-major one
RECURSIVE advance_loop_most_major_first(_, _, _, _)
advance_loop_most_major_first(stats, indexes, i, turnover) ==
    IF i = 0 THEN [indexes |-> indexes, turnover |-> turnover]
    ELSE LET index == stats.priorities_i[Rank - i]
             incremented ==
                 (indexes[index] + (IF turnover THEN 1 ELSE 0)) % Modulus
             new_turnover == incremented >= stats.extents_i[index]
             reset == IF new_turnover THEN 0 ELSE incremented
         IN  advance_loop_most_major_first(
                 stats, [indexes EXCEPT ![index] = reset], i - 1, new_turnover)

\* advance_index_pack( indexes ) incrementing the most-major index
advance_index_pack_most_major_first(stats, indexes) ==
    advance_loop_most_major_first(stats, indexes, Rank, TRUE)

\* advance_index_pack( indexes ): starts with turnover = true
advance_index_pack(stats, indexes) == advance_loop(stats, indexes, Rank, TRUE)

\* apply visiting every element of the container
apply_limit_size(obj) == Len(obj.c)

\* limit = std::min( required_size(), size() )
apply_limit(obj) == min(required_size(obj.stats), Len(obj.c))

\* while ( limit-- ) { f( *current++, indexes... ); advance_index_pack; }:
\* the calls of f, each with the position of its element and its indexes
RECURSIVE apply_loop(_, _, _, _, _)
apply_loop(obj, limit, current, indexes, calls) ==
    IF limit = 0 THEN calls
    ELSE apply_loop(obj, limit - 1, current + 1,
                    advance_index_pack(obj.stats, indexes).indexes,
                    Append(calls, [pos |-> current, indexes |-> indexes]))

\* apply( f ): the calls of f, in order
do_apply(obj) == apply_loop(obj, apply_limit(obj), 0, first_index_pack, <<>>)

\* capply( f ): apply( std::forward<Function>(f) ) on the const object
do_capply(obj) == do_apply(obj)

\* multiarray_storage_base::swap: using std::swap; swap( c, other.c )
storage_swap(this, other) ==
    [this |-> [this EXCEPT !.c = other.c],
     other |-> [other EXCEPT !.c = this.c]]

\* multiarray_indexed_base::swap: std::swap( stats, other.stats )
indexed_swap(this, other) ==
    [this |-> [this EXCEPT !.stats = other.stats],
     other |-> [other EXCEPT !.stats = this.stats]]

\* swap( other ) exchanging the containers only
do_swap_storage_only(this, other) == storage_swap(this, other)

\* swap( other ): sbase_type::swap( other ); ibase_type::swap( other )
do_swap(this, other) ==
    LET r == storage_swap(this, other)
    IN  indexed_swap(r.this, r.other)

\* an element accessor that also refuses an offset outside the container
do_access_within_container(obj, i, throw_on_bad_input) ==
    LET r == get_offset(obj.stats, i, throw_on_bad_input)
    IN  IF r.thrown # None THEN [thrown |-> r.thrown, refs |-> {NoPos}]
        ELSE IF throw_on_bad_input
                /\ \E offset \in r.offsets : offset < 0 \/ offset >= Len(obj.c)
        THEN [thrown |-> "out_of_range", refs |-> {NoPos}]
        ELSE [thrown |-> None,
              refs |-> UNION {dereference(obj.c, offset) : offset \in r.offsets}]

\* an element accessor: get_offset, then the dereference; the exception and
\* the set of element positions the returned reference may denote
do_access(obj, i, throw_on_bad_input) ==
    LET r == get_offset(obj.stats, i, throw_on_bad_input)
    IN  [thrown |-> r.thrown,
         refs |-> IF r.thrown # None THEN {NoPos}
                  ELSE UNION {dereference(obj.c, offset) :
                              offset \in r.offsets}]

\* what the last call on a was, whether it threw, and the element position
\* it returned a reference to
Call(op, form, thrown, ref) ==
    [op |-> op, form |-> form, thrown |-> thrown, ref |-> ref]

\* a is constructed from a container (copied or moved in), b by default
Init ==
    /\ a = multiarray(ContainerA)
    /\ b = multiarray(<<>>)
    /\ \E form \in CtorForms : last = Call("multiarray", form, None, NoPos)

\* a.extents( e ) that also trims the container to the new required size
extents_trimming(form, e) ==
    LET r == do_extents(a.stats, e)
        n == IF required_size(r.stats) < Len(a.c)
             THEN required_size(r.stats) ELSE Len(a.c)
    IN  /\ a' = [c |-> SubSeq(a.c, 1, n), stats |-> r.stats]
        /\ b' = b
        /\ last' = Call("extents", form, r.thrown, NoPos)

\* a.extents( e ), packaged or positional (the latter forwards)
extents(form, e) ==
    LET r == do_extents(a.stats, e)
    IN  /\ a' = [a EXCEPT !.stats = r.stats]
        /\ b' = b
        /\ last' = Call("extents", form, r.thrown, NoPos)

\* a.priorities( p ), packaged or positional (the latter forwards)
priorities(form, p) ==
    LET r == do_priorities(a.stats, p)
    IN  /\ a' = [a EXCEPT !.stats = r.stats]
        /\ b' = b
        /\ last' = Call("priorities", form, r.thrown, NoPos)

\* a.use_row_major_order()
use_row_major_order ==
    LET r == do_priorities(a.stats, row_major_order)
    IN  /\ a' = [a EXCEPT !.stats = r.stats]
        /\ b' = b
        /\ last' = Call("use_row_major_order", None, r.thrown, NoPos)

\* a.use_column_major_order()
use_column_major_order ==
    LET r == do_priorities(a.stats, column_major_order)
    IN  /\ a' = [a EXCEPT !.stats = r.stats]
        /\ b' = b
        /\ last' = Call("use_column_major_order", None, r.thrown, NoPos)

\* a.extents_and_priorities( e, p )
extents_and_priorities(e, p) ==
    LET r == do_extents_and_priorities(a.stats, e, p)
    IN  /\ a' = [a EXCEPT !.stats = r.stats]
        /\ b' = b
        /\ last' = Call("extents_and_priorities", "list", r.thrown, NoPos)

\* a.swap( b ): sbase_type::swap exchanges c, ibase_type::swap stats
swap ==
    LET r == do_swap(a, b)
    IN  /\ a' = r.this
        /\ b' = r.other
        /\ last' = Call("swap", None, None, NoPos)

\* a.fill( v )
fill(v) ==
    /\ a' = [a EXCEPT !.c = do_fill(a, v)]
    /\ b' = b
    /\ last' = Call("fill", None, None, NoPos)

\* a.apply( f ) and a.capply( f ) with an f that reads its arguments: the
\* position of the last element handed to f is kept
apply(op) ==
    LET calls == IF op = "capply" THEN do_capply(a) ELSE do_apply(a)
        ref == IF calls = <<>> THEN NoPos ELSE calls[Len(calls)].pos
    IN  /\ last' = Call(op, None, None, ref)
        /\ UNCHANGED <<a, b>>

\* an element accessor called on a
access(op, form, i, throw_on_bad_input) ==
    LET r == do_access(a, i, throw_on_bad_input)
    IN  /\ \E ref \in r.refs : last' = Call(op, form, r.thrown, ref)
        /\ UNCHANGED <<a, b>>

\* a.at( {i...} ) and a.at( i... )
at(form, i) == access("at", form, i, TRUE)

\* a( {i...} ) and a( i... )
operator_call(form, i) == access("operator()", form, i, FALSE)

\* a[ {i...} ]: returns operator ()( i )
operator_subscript(i) == access("operator[]", "list", i, FALSE)

\* the packaged and the positional form of a call
Forms == {"list", "positional"}

Next ==
    \/ \E form \in Forms, e \in ExtInputs : extents(form, e)
    \/ \E form \in Forms, p \in PriInputs : priorities(form, p)
    \/ use_row_major_order
    \/ use_column_major_order
    \/ \E e \in ExtInputs, p \in PriInputs : extents_and_priorities(e, p)
    \/ swap
    \/ \E v \in FillVals : fill(v)
    \/ \E op \in {"apply", "capply"} : apply(op)
    \/ \E form \in Forms, i \in IdxInputs : at(form, i)
    \/ \E form \in Forms, i \in IdxInputs : operator_call(form, i)
    \/ \E i \in IdxInputs : operator_subscript(i)

Spec == Init /\ [][Next]_vars

\* ------------------------------------------------------------ vocabulary
\* the two objects
Objects == {a, b}

\* the mathematical product of f over the set S of positions
RECURSIVE Product(_, _)
Product(f, S) ==
    IF S = {} THEN 1
    ELSE LET d == CHOOSE x \in S : TRUE IN f[d] * Product(f, S \ {d})

\* the dimensions listed after d in the priority list: less major than d
LessMajor(stats, d) ==
    {stats.priorities_i[k] :
        k \in {k \in Dims : \E j \in Dims : j < k /\ stats.priorities_i[j] = d}}

\* the stride the documentation gives dimension d
ExpectedStride(stats, d) == Product(stats.extents_i, LessMajor(stats, d))

\* the linear position the documentation gives the index list i
RECURSIVE ExpectedOffset(_, _, _)
ExpectedOffset(stats, i, k) ==
    IF k > Len(i) THEN 0
    ELSE i[k] * ExpectedStride(stats, k - 1) + ExpectedOffset(stats, i, k + 1)

\* exactly Rank indices, each below its extent
InRange(stats, i) ==
    /\ Len(i) = Rank
    /\ \A k \in 1 .. Rank : i[k] < stats.extents_i[k - 1]

\* p names each dimension exactly once
IsPermutationOfDims(p) ==
    /\ \A d \in Dims : p[d] \in Dims
    /\ \A d1, d2 \in Dims : p[d1] = p[d2] => d1 = d2

\* throw_on_bad_input: the checked and the unchecked use of get_offset
AccessFlags == {TRUE, FALSE}

\* the calls that set the shape
ShapeSetters == {"extents", "priorities", "extents_and_priorities",
                 "use_row_major_order", "use_column_major_order"}

\* the element accessors
Accessors == {"at", "operator()", "operator[]"}

\* ------------------------------------------------------------------ C1
\* C1: in every reachable state, an accessor (operator(), operator[], at)
\* given exactly Rank in-range indices throws nothing and computes the
\* offset SUM_d index[d] * stride[d], stride[d] being the product of the
\* extents of the dimensions after d in the priority list; where the
\* container has that position, the reference returned denotes it.
C1_OffsetIsStrideSum ==
    \A i \in IdxInputs : \A flag \in AccessFlags :
        InRange(a.stats, i) =>
            LET r == get_offset(a.stats, i, flag)
                pos == ExpectedOffset(a.stats, i, 1)
            IN  /\ r.thrown = None
                /\ r.offsets = {pos}
                /\ pos < Len(a.c) => do_access(a, i, flag).refs = {pos}

\* an accessor has returned the second element of the container from a
\* column-major shape with more than one column and more than one row
C1_Witness ==
    /\ last.op \in Accessors
    /\ last.thrown = None
    /\ last.ref = 1
    /\ a.stats.priorities_i = column_major_order
    /\ a.stats.extents_i[0] > 1

\* ------------------------------------------------------------------ C2
\* valid extents: none zero, and the product fits size_type
ValidExtents(e) ==
    /\ \A d \in Dims : e[d] > 0
    /\ Product(e, Dims) <= SizeMax

\* C2: extents_and_priorities(e, p) with valid e and invalid p throws, and
\* leaves extents, priorities and strides (so required_size as well) as
\* they were before the call.
C2_FailedPairRollsBack ==
    /\ [](\A e \in ExtInputs : \A p \in PriInputs :
            (ValidExtents(e) /\ ~ IsPermutationOfDims(p)) =>
                LET r == do_extents_and_priorities(a.stats, e, p)
                IN  /\ r.thrown \in {"out_of_range", "invalid_argument"}
                    /\ r.stats = a.stats
                    /\ required_size(r.stats) = required_size(a.stats))
    /\ [][(last'.op = "extents_and_priorities" /\ last'.thrown # None)
            => (a'.stats = a.stats
                /\ required_size(a'.stats) = required_size(a.stats))]_vars

\* extents_and_priorities has thrown for its priorities on a reshaped object
C2_Witness ==
    /\ last.op = "extents_and_priorities"
    /\ last.thrown = "invalid_argument"
    /\ a.stats.extents_i # multiarray(a.c).stats.extents_i

\* ------------------------------------------------------------------ C3
\* C3: in every reachable state, both objects have only positive extents
\* and priorities that name each dimension exactly once.
C3_ShapeInvariant ==
    \A obj \in Objects :
        /\ \A d \in Dims : obj.stats.extents_i[d] > 0
        /\ IsPermutationOfDims(obj.stats.priorities_i)

\* a setter has thrown on a after a swap put a column-major shape into b
C3_Witness ==
    /\ last.op \in ShapeSetters
    /\ last.thrown # None
    /\ b.stats.priorities_i = column_major_order
    /\ Len(b.c) = MaxLen

\* ------------------------------------------------------------------ C4
\* C4: in every reachable state, each cached stride of both objects is the
\* product of the extents of the less major dimensions, and the least-major
\* dimension has stride 1.
C4_StridesNeverStale ==
    \A obj \in Objects :
        /\ \A d \in Dims :
              obj.stats.strides_i[d] = ExpectedStride(obj.stats, d)
        /\ obj.stats.strides_i[obj.stats.priorities_i[Rank - 1]] = 1

\* a setter has thrown on an object whose strides are not all 1
C4_Witness ==
    /\ last.op \in ShapeSetters
    /\ last.thrown # None
    /\ \E d \in Dims : a.stats.strides_i[d] > 1

\* ------------------------------------------------------------------ C5
\* C5: required_size() is the product of the extents in every reachable
\* state, whatever the size of the container, and no priorities call
\* changes it.
C5_RequiredSizeIsProduct ==
    /\ [](\A obj \in Objects :
            required_size(obj.stats) = Product(obj.stats.extents_i, Dims))
    /\ [][last'.op \in {"priorities", "use_row_major_order",
                        "use_column_major_order"}
            => required_size(a'.stats) = required_size(a.stats)]_vars

\* priorities were changed on an object that needs more elements than its
\* container has
C5_Witness ==
    /\ last.op = "priorities"
    /\ last.thrown = None
    /\ a.stats.priorities_i # row_major_order
    /\ required_size(a.stats) > Len(a.c)
    /\ Len(a.c) > 0

\* ------------------------------------------------------------------ C6
\* C6: extents(e) throws out_of_range exactly when some e[d] is 0, and a
\* throwing extents(e) leaves extents, priorities and strides unchanged.
C6_ZeroExtentRejected ==
    /\ [](\A e \in ExtInputs :
            LET r == do_extents(a.stats, e)
            IN  /\ r.thrown = "out_of_range" <=> \E d \in Dims : e[d] = 0
                /\ r.thrown # None => r.stats = a.stats)
    /\ [][(last'.op = "extents" /\ last'.thrown # None)
            => a'.stats = a.stats]_vars

\* the positional form of extents has thrown out_of_range on a reshaped
\* object
C6_Witness ==
    /\ last.op = "extents"
    /\ last.form = "positional"
    /\ last.thrown = "out_of_range"
    /\ required_size(a.stats) > 1

\* ------------------------------------------------------------------ C7
\* C7: for e without zeros, extents(e) throws overflow_error exactly when
\* the mathematical product exceeds the maximum of size_type; the running
\* product of the check is always the mathematical product of the extents
\* multiplied so far; on the error the shape is unchanged.
C7_OverflowExact ==
    \A e \in ExtInputs :
        (\A d \in Dims : e[d] > 0) =>
            LET r == do_extents(a.stats, e)
                run == extents_limit_loop(e, 0, 1)
            IN  /\ r.thrown = "overflow_error" <=> Product(e, Dims) > SizeMax
                /\ \A k \in 1 .. Len(run.limits) :
                      run.limits[k] = Product(e, 0 .. (k - 1))
                /\ r.thrown = "overflow_error" => r.stats = a.stats
                /\ Product(e, Dims) <= SizeMax => r.stats.extents_i = e

\* extents accepted a shape whose product is exactly the maximum
C7_Witness ==
    /\ last.op = "extents"
    /\ last.thrown = None
    /\ required_size(a.stats) = SizeMax
    /\ Product(a.stats.extents_i, Dims) = SizeMax

\* ------------------------------------------------------------------ C8
\* C8: priorities(p) throws out_of_range if some p[i] >= Rank, throws
\* invalid_argument if all are in range but p is no permutation, and
\* otherwise makes priorities() equal p; when it throws, priorities,
\* extents and strides are unchanged.
C8_PrioritiesValidated ==
    /\ [](\A p \in PriInputs :
            LET r == do_priorities(a.stats, p)
            IN  /\ (\E d \in Dims : p[d] >= Rank)
                      => r.thrown = "out_of_range"
                /\ ((\A d \in Dims : p[d] < Rank)
                        /\ ~ IsPermutationOfDims(p))
                      => r.thrown = "invalid_argument"
                /\ IsPermutationOfDims(p)
                      => r.thrown = None /\ r.stats.priorities_i = p
                /\ r.thrown # None => r.stats = a.stats)
    /\ [][(last'.op = "priorities" /\ last'.thrown # None)
            => a'.stats = a.stats]_vars

\* priorities has thrown invalid_argument on a column-major object
C8_Witness ==
    /\ last.op = "priorities"
    /\ last.thrown = "invalid_argument"
    /\ a.stats.priorities_i = column_major_order

\* ------------------------------------------------------------------ C9
\* C9: at throws length_error exactly when the number of indices is not
\* Rank; otherwise it throws out_of_range exactly when some index is not
\* below its extent; otherwise it returns what operator() returns for the
\* same indices.  A call of at changes neither object.
C9_AtChecksThenAgrees ==
    /\ [](\A i \in IdxInputs :
            LET r == do_access(a, i, TRUE)
            IN  /\ r.thrown = "length_error" <=> Len(i) # Rank
                /\ Len(i) = Rank =>
                      (r.thrown = "out_of_range" <=>
                          \E k \in 1 .. Rank : i[k] >= a.stats.extents_i[k - 1])
                /\ r.thrown = None =>
                      /\ r.refs = do_access(a, i, FALSE).refs
                      /\ get_offset(a.stats, i, TRUE).offsets
                            = get_offset(a.stats, i, FALSE).offsets)
    /\ [][last'.op = "at" => (a' = a /\ b' = b)]_vars

\* the positional form of at has thrown out_of_range on a reshaped object
C9_Witness ==
    /\ last.op = "at"
    /\ last.form = "positional"
    /\ last.thrown = "out_of_range"
    /\ a.stats.extents_i[1] > 1

\* ----------------------------------------------------------------- C10
\* C10: no call that sets the shape, successful or throwing, changes the
\* container of either object: its size and the value at every position
\* stay as they were.
C10_ContainerUntouched ==
    [][last'.op \in ShapeSetters => (a'.c = a.c /\ b'.c = b.c)]_vars

\* extents has shrunk the shape below the size of the container
C10_Witness ==
    /\ last.op = "extents"
    /\ last.thrown = None
    /\ required_size(a.stats) < Len(a.c)

\* ----------------------------------------------------------------- C11
\* the larger of two numbers
Max(x, y) == IF x > y THEN x ELSE y

\* the shape the constructors document for a container of n elements
ConstructedShape(stats, n) ==
    /\ stats.extents_i = [d \in Dims |-> IF d = 0 THEN Max(n, 1) ELSE 1]
    /\ stats.priorities_i = [d \in Dims |-> d]
    /\ required_size(stats) = Max(n, 1)

\* C11: right after construction (default, copy or move) an object with a
\* container of n elements has extents [max(n,1), 1, ..., 1], row-major
\* priorities and required_size() = max(n,1); the same holds for every
\* container a constructor may be given.  With Rank 0, over any container,
\* required_size() is 1 after construction and after every later setter.
C11_ConstructedShape ==
    /\ last.op = "multiarray" =>
          \A obj \in Objects : ConstructedShape(obj.stats, Len(obj.c))
    /\ \A cc \in Containers :
          /\ multiarray(cc).c = cc
          /\ ConstructedShape(multiarray(cc).stats, Len(cc))
    /\ \A cc \in Containers \cup {a.c, b.c} :
          LET z == rank0_multiarray(cc)
          IN  /\ rank0_required_size(z.stats) = 1
              /\ \A s \in rank0_setters(z.stats) :
                    s = z.stats /\ rank0_required_size(s) = 1

\* a was just move-constructed over a container of several elements and b
\* default-constructed over an empty one
C11_Witness ==
    /\ last.op = "multiarray"
    /\ last.form = "move"
    /\ Len(a.c) = MaxLen
    /\ Len(a.c) > 1
    /\ Len(b.c) = 0

\* ----------------------------------------------------------------- C12
\* the number of elements the documentation lets fill and apply visit
VisitCount(obj) == min(Product(obj.stats.extents_i, Dims), Len(obj.c))

\* C12: fill(v) gives the value v to the first min(required_size(), size())
\* positions of the container and to no other: the later positions, the
\* size of the container, the shape of a and the whole of b are as before.
C12_FillFrame ==
    /\ [](\A v \in FillVals :
            LET c2 == do_fill(a, v)
            IN  /\ Len(c2) = Len(a.c)
                /\ \A k \in 1 .. Len(a.c) :
                      c2[k] = IF k <= VisitCount(a) THEN v ELSE a.c[k])
    /\ [][last'.op = "fill" =>
            /\ a'.stats = a.stats
            /\ b' = b
            /\ Len(a'.c) = Len(a.c)
            /\ \A k \in 1 .. Len(a.c) :
                  IF k <= VisitCount(a) THEN a'.c[k] \in FillVals
                  ELSE a'.c[k] = a.c[k]]_vars

\* fill has written the first position of a container that is larger than
\* the shape, and the last position still holds its constructed value
C12_Witness ==
    /\ last.op = "fill"
    /\ Len(a.c) = MaxLen
    /\ required_size(a.stats) < Len(a.c)
    /\ a.c[1] \in FillVals
    /\ a.c[MaxLen] = ContainerA[MaxLen]

\* ----------------------------------------------------------------- C13
\* a view with the stats of obj over a container of n elements
Resized(obj, n) == [c |-> [k \in 1 .. n |-> k], stats |-> obj.stats]

\* the objects apply is examined on: a, b, and views of the shape of a
\* over containers of every size up to one more than its required size
ApplyObjects ==
    Objects \cup {Resized(a, n) :
                     n \in 0 .. min(required_size(a.stats) + 1, SizeMax)}

\* every index tuple the extents allow
CartesianProduct(stats) ==
    {i \in [Dims -> 0 .. SizeMax] : \A d \in Dims : i[d] < stats.extents_i[d]}

\* C13: apply and capply call f exactly min(required_size(), size()) times,
\* the k-th call on container position k - 1; when the container has at
\* least required_size() elements the index tuples handed to f are pairwise
\* different and are exactly the tuples the extents allow.
C13_ApplyVisits ==
    \A obj \in ApplyObjects :
        LET calls == do_apply(obj)
        IN  /\ do_capply(obj) = calls
            /\ Len(calls) = VisitCount(obj)
            /\ \A k \in 1 .. Len(calls) : calls[k].pos = k - 1
            /\ Len(obj.c) >= Product(obj.stats.extents_i, Dims) =>
                  /\ \A j, k \in 1 .. Len(calls) :
                        calls[j].indexes = calls[k].indexes => j = k
                  /\ {calls[k].indexes : k \in 1 .. Len(calls)}
                        = CartesianProduct(obj.stats)

\* apply has visited both elements of the container under a column-major
\* shape with two rows, which the container covers
C13_Witness ==
    /\ last.op \in {"apply", "capply"}
    /\ last.ref = MaxLen - 1
    /\ a.stats.priorities_i = column_major_order
    /\ a.stats.extents_i[0] > 1
    /\ required_size(a.stats) <= Len(a.c)

\* ----------------------------------------------------------------- C14
\* what the index list i yields on obj: the values of the elements the
\* reference may denote (an undefined reference is kept as it is)
ElementsAt(obj, i) ==
    {IF ref >= 0 THEN obj.c[ref + 1] ELSE ref :
        ref \in do_access(obj, i, FALSE).refs}

\* x yields for every index list valid for y what y yields for it
SameMapping(x, y) ==
    \A i \in IdxInputs :
        InRange(y.stats, i) =>
            /\ do_access(x, i, TRUE) = do_access(y, i, TRUE)
            /\ ElementsAt(x, i) = ElementsAt(y, i)

\* C14: swap exchanges the containers and the extents, priorities and
\* strides of the two objects: after it a yields for every index list valid
\* for the old b what the old b yielded, and b what the old a yielded; a
\* second swap gives both objects back exactly.
C14_SwapExchanges ==
    /\ [](LET r == do_swap(a, b)
              rr == do_swap(r.this, r.other)
          IN  /\ r.this = b /\ r.other = a
              /\ SameMapping(r.this, b) /\ SameMapping(r.other, a)
              /\ rr.this = a /\ rr.other = b)
    /\ [][last'.op = "swap" =>
            /\ a'.c = b.c /\ a'.stats = b.stats
            /\ b'.c = a.c /\ b'.stats = a.stats
            /\ SameMapping(a', b) /\ SameMapping(b', a)]_vars

\* a swap has given a its container back while b keeps, over the empty
\* container, a column-major shape that was set on a in between
C14_Witness ==
    /\ last.op = "swap"
    /\ Len(a.c) = MaxLen
    /\ Len(b.c) = 0
    /\ b.stats.priorities_i = column_major_order
    /\ required_size(b.stats) > 1
    /\ a.stats # b.stats

\* ----------------------------------------------------------------- C15
\* obj with its stats replaced
Reshaped(obj, stats) == [obj EXCEPT !.stats = stats]

\* C15: the offsets depend on the current extents and priorities only.
\* From every reachable state, extents(s2) followed by extents(s1), s1
\* being the extents held before, succeeds in its second call, leaves the
\* priorities alone, and leaves every index list valid under s1 on the
\* container position, and so the value, it had before.
C15_MappingFromShapeOnly ==
    \A s2 \in ExtInputs :
        LET s1 == a.stats.extents_i
            there == do_extents(a.stats, s2)
            back == do_extents(there.stats, s1)
        IN  /\ back.thrown = None
            /\ back.stats.extents_i = s1
            /\ back.stats.priorities_i = a.stats.priorities_i
            /\ there.stats.priorities_i = a.stats.priorities_i
            /\ SameMapping(Reshaped(a, back.stats), a)

\* extents has put a back to its constructed extents after a fill that ran
\* while the shape had a single element
C15_Witness ==
    /\ last.op = "extents"
    /\ last.thrown = None
    /\ Len(a.c) = MaxLen
    /\ a.stats.extents_i = multiarray(ContainerA).stats.extents_i
    /\ a.c[1] \in FillVals
    /\ a.c[MaxLen] = ContainerA[MaxLen]

\* ----------------------------------------------------------------- C16
\* stats is what a major-order setter documents: the priorities p, the
\* extents of before, and strides that fit the two
MajorOrderSet(stats, before, p) ==
    /\ stats.priorities_i = p
    /\ stats.extents_i = before.extents_i
    /\ \A d \in Dims : stats.strides_i[d] = ExpectedStride(stats, d)

\* C16: from every reachable state use_row_major_order() sets the
\* priorities to (0, 1, ..., Rank-1) and use_column_major_order() sets them
\* to (Rank-1, ..., 1, 0); neither throws, both leave the extents, the
\* container and the other object unchanged, and the strides are those of
\* the new priorities.
C16_MajorOrderSetters ==
    /\ [](LET row == do_priorities(a.stats, row_major_order)
              col == do_priorities(a.stats, column_major_order)
          IN  /\ row.thrown = None
              /\ MajorOrderSet(row.stats, a.stats, [d \in Dims |-> d])
              /\ col.thrown = None
              /\ MajorOrderSet(col.stats, a.stats,
                               [d \in Dims |-> Rank - 1 - d]))
    /\ [][last'.op = "use_row_major_order" =>
            /\ last'.thrown = None
            /\ MajorOrderSet(a'.stats, a.stats, [d \in Dims |-> d])
            /\ a'.c = a.c /\ b' = b]_vars
    /\ [][last'.op = "use_column_major_order" =>
            /\ last'.thrown = None
            /\ MajorOrderSet(a'.stats, a.stats,
                             [d \in Dims |-> Rank - 1 - d])
            /\ a'.c = a.c /\ b' = b]_vars

\* use_column_major_order has made the first index the least major one of
\* a shape with two rows and two columns
C16_Witness ==
    /\ last.op = "use_column_major_order"
    /\ last.thrown = None
    /\ a.stats.extents_i[0] > 1
    /\ a.stats.extents_i[1] > 1
    /\ a.stats.priorities_i[0] = Rank - 1
    /\ a.stats.strides_i[0] = 1
    /\ a.stats.strides_i[1] > 1

\* =================================================== array_md<T, Extents...>
\* boost::container::array_md: the extents are part of the type.  An object
\* is a record of its static_sizes and its data_block, the elements laid out
\* as the nested built-in array lays them out.  In this part a and b are two
\* array_md objects of one type and every member function is called on a.

\* the instantiations examined: no extents, a zero first extent, one, two
\* and three extents
ArrayTypes == {<<>>, <<0>>, <<0, 2>>, <<2>>, <<2, 3>>, <<2, 1, 2>>}

\* sizeof( value_type ) of the element types examined
Sizeofs == {1, 4}

\* sizeof( value_type ) of the objects a and b
sizeof_value_type == 4

\* the element values written through a reference
ElementVals == {1}

\* what a read past the end of static_sizes may find
GarbageVals == {0, 1, SizeMax}

\* dimensionality = 1u + sizeof...( N ), and 0u without extents
array_md_dimensionality(N) == IF N = <<>> THEN 0 ELSE 1 + Len(Tail(N))

\* sizeof( append_extents<T, N...>::type ) for sizeof( T ) = s
RECURSIVE sizeof_append_extents(_, _)
sizeof_append_extents(N, s) ==
    IF N = <<>> THEN s ELSE Head(N) * sizeof_append_extents(Tail(N), s)

\* static_size without the factor for the inner extents
static_size_for_first_extent(N, s) == IF N = <<>> THEN 1 ELSE Head(N)

\* static_size = std::extent<data_type>::value * ( sizeof(direct_element_type)
\* / sizeof(value_type) ), and 1u without extents; a zero first extent makes
\* data_type an array of unknown bound, whose std::extent is 0
static_size_for(N, s) ==
    IF N = <<>> THEN 1
    ELSE Head(N) * (sizeof_append_extents(Tail(N), s) \div s)

\* size(): return static_size
array_md_size(obj) == static_size_for(obj.static_sizes, sizeof_value_type)

\* max_size(): return size()
array_md_max_size(obj) == array_md_size(obj)

\* empty(): return !size()
array_md_empty(obj) == array_md_size(obj) = 0

\* data(): the position of the first element (with static_size 0, the
\* address of the placeholder storage)
array_md_data(obj) == 0

\* begin(): return data()
array_md_begin(obj) == array_md_data(obj)

\* end(): return data() + size()
array_md_end(obj) == array_md_data(obj) + array_md_size(obj)

\* array_md<T, N...> x{}: every element value-initialised
array_md(N) ==
    [static_sizes |-> N,
     data_block |-> [k \in 1 .. static_size_for(N, sizeof_value_type) |-> 0]]

\* a reference to the sub-array (or, with no sizes left, the element) that
\* starts at position pos of data_block
View(pos, sizes) == [pos |-> pos, sizes |-> sizes]

\* what undefined behaviour may yield in place of a reference
UBRefs == {View(u, <<>>) : u \in UBVals}

\* no reference: the call threw
NoRef == View(NoPos, <<>>)

\* the outcome of a call: the exception and the reference returned
Outcome(thrown, ref) == [thrown |-> thrown, ref |-> ref]

\* the number of elements a view spans
RECURSIVE ViewLen(_)
ViewLen(sizes) == IF sizes = <<>> THEN 1 ELSE Head(sizes) * ViewLen(Tail(sizes))

\* *start for a pointer start to value_type: outside the elements it is
\* undefined
array_md_dereference(obj, start) ==
    IF start >= 0 /\ start < Len(obj.data_block)
    THEN {View(start, <<>>)} ELSE UBRefs

\* the loop of operator [] with the index applied to the stride of the
\* enclosing level
RECURSIVE subscript_list_loop_outer_stride(_, _, _, _, _)
subscript_list_loop_outer_stride(obj, i, k, stride, start) ==
    IF k > Len(i) THEN array_md_dereference(obj, start)
    ELSE IF k > Len(obj.static_sizes) \/ obj.static_sizes[k] = 0 THEN UBRefs
    ELSE subscript_list_loop_outer_stride(obj, i, k + 1,
             stride \div obj.static_sizes[k],
             start + ((stride * i[k]) % Modulus))

\* the loop of operator []( std::initializer_list<size_type> ) from the
\* k-th index on: stride /= *pfraction++; start += stride * ii.  With no
\* extent left *pfraction is read past static_sizes; a zero extent divides
\* by zero.
RECURSIVE subscript_list_loop(_, _, _, _, _)
subscript_list_loop(obj, i, k, stride, start) ==
    IF k > Len(i) THEN array_md_dereference(obj, start)
    ELSE LET fractions ==
                 IF k > Len(obj.static_sizes) THEN GarbageVals
                 ELSE {obj.static_sizes[k]}
         IN  UNION {IF fraction = 0 THEN {View(-2, <<>>)}
                    ELSE subscript_list_loop(obj, i, k + 1,
                             stride \div fraction,
                             start + (((stride \div fraction) * i[k]) % Modulus)) :
                    fraction \in fractions}

\* operator [] testing the number of indices as at does
array_md_subscript_list_counted(obj, i) ==
    IF Len(i) # array_md_dimensionality(obj.static_sizes)
    THEN {Outcome("length_error", NoRef)}
    ELSE {Outcome(None, ref) :
             ref \in subscript_list_loop(obj, i, 1, array_md_size(obj),
                                         array_md_data(obj))}

\* operator []( std::initializer_list<size_type> i ): never throws
array_md_subscript_list(obj, i) ==
    {Outcome(None, ref) :
        ref \in subscript_list_loop(obj, i, 1, array_md_size(obj),
                                    array_md_data(obj))}

\* operator ()( std::initializer_list<size_type> i ): return operator []( i );
\* without extents it returns data_block whatever the list holds
array_md_call_list(obj, i) ==
    IF obj.static_sizes = <<>> THEN {Outcome(None, View(0, <<>>))}
    ELSE array_md_subscript_list(obj, i)

\* t[ u ] for a built-in array t: outside the bound it is undefined
subscript(t, u) ==
    IF t.pos < 0 THEN {t}
    ELSE IF u < 0 \/ u >= Head(t.sizes) THEN UBRefs
    ELSE {View(t.pos + u * ViewLen(Tail(t.sizes)), Tail(t.sizes))}

\* slice( t ) returns t; slice( t, u, v... ) returns slice( t[u], v... )
RECURSIVE slice(_, _)
slice(t, v) ==
    IF v = <<>> THEN {t}
    ELSE UNION {slice(tu, Tail(v)) : tu \in subscript(t, Head(v))}

\* operator ()( Indices &&...i ): slice( data_block, i... )
array_md_call(obj, i) ==
    {Outcome(None, ref) : ref \in slice(View(0, obj.static_sizes), i)}

\* operator []( size_type i ) and the built-in indexing that follows it:
\* data_block[ i0 ][ i1 ]...
array_md_subscript_chain(obj, i) ==
    {Outcome(None, ref) : ref \in slice(View(0, obj.static_sizes), i)}

\* static_cast<cmp_type>( x ), cmp_type being the common type of the index
\* type and std::size_t
static_cast_cmp_type(x) == x % Modulus

\* the steps a call of checked_slice performs, in order: the comparison of
\* an index with the bound of its level, the indexing t[ u ], the throw
Step(kind, level, u, bound) ==
    [kind |-> kind, level |-> level, u |-> u, bound |-> bound]

\* the result of checked_slice: the exception thrown, the reference
\* returned and the steps performed
Checked(thrown, ref, steps) == [thrown |-> thrown, ref |-> ref, steps |-> steps]

\* checked_slice with the indexing performed before the comparison
RECURSIVE checked_slice_index_first(_, _, _, _)
checked_slice_index_first(e, t, v, steps) ==
    IF v = <<>> THEN {Checked(None, t, steps)}
    ELSE LET u == Head(v)
             N == Head(t.sizes)
             level == Len(steps) \div 2
             done == steps \o <<Step("index", level, u, N),
                                Step("compare", level, u, N)>>
         IN  IF u < 0 \/ static_cast_cmp_type(u) >= static_cast_cmp_type(N)
             THEN {Checked(e, NoRef, Append(done, Step("throw", level, u, N)))}
             ELSE UNION {checked_slice_index_first(e, tu, Tail(v), done) :
                            tu \in subscript(t, u)}

\* checked_slice( e, t ) returns t; checked_slice( e, t, u, v... ) is
\* ( u < u_type{} ) || ( static_cast<cmp_type>(u) >= static_cast<cmp_type>(N) )
\*   ? throw e, checked_slice( e, t[u], v... ) : checked_slice( e, t[u], v... )
\* for the bound N of the built-in array t
RECURSIVE checked_slice(_, _, _, _)
checked_slice(e, t, v, steps) ==
    IF v = <<>> THEN {Checked(None, t, steps)}
    ELSE LET u == Head(v)
             N == Head(t.sizes)
             level == Len(steps) \div 2
             compared == Append(steps, Step("compare", level, u, N))
         IN  IF u < 0 \/ static_cast_cmp_type(u) >= static_cast_cmp_type(N)
             THEN {Checked(e, NoRef,
                           Append(compared, Step("throw", level, u, N)))}
             ELSE UNION {checked_slice(e, tu, Tail(v),
                             Append(compared, Step("index", level, u, N))) :
                            tu \in subscript(t, u)}

\* at( Indices &&...i ): checked_slice( std::out_of_range{...}, data_block,
\* i... )
array_md_at(obj, i) ==
    checked_slice("out_of_range", View(0, obj.static_sizes), i, <<>>)

\* the loop of at( std::initializer_list<size_type> ) from the k-th index
\* on: stride /= *pfraction; if ( ii >= *pfraction++ ) throw
\* std::out_of_range; start += stride * ii.  The division comes before the
\* test, so a zero extent divides by zero before the index is tested: the
\* call may then fault, throw as the test would, or go on.
RECURSIVE at_list_loop(_, _, _, _, _)
at_list_loop(obj, i, k, stride, start) ==
    IF k > Len(i)
    THEN {Outcome(None, ref) : ref \in array_md_dereference(obj, start)}
    ELSE LET fraction == obj.static_sizes[k]
         IN  IF fraction = 0
             THEN {Outcome("fault", NoRef), Outcome("out_of_range", NoRef)}
                  \cup {Outcome(None, ref) : ref \in UBRefs}
             ELSE IF i[k] >= fraction
             THEN {Outcome("out_of_range", NoRef)}
             ELSE at_list_loop(obj, i, k + 1, stride \div fraction,
                      start + (((stride \div fraction) * i[k]) % Modulus))

\* at( std::initializer_list<size_type> i ): the count of the indices is
\* tested first; without extents the test is i.size() nonzero and the
\* element is data_block
array_md_at_list(obj, i) ==
    IF Len(i) # array_md_dimensionality(obj.static_sizes)
    THEN {Outcome("length_error", NoRef)}
    ELSE IF obj.static_sizes = <<>> THEN {Outcome(None, View(0, <<>>))}
    ELSE at_list_loop(obj, i, 1, array_md_size(obj), array_md_data(obj))

\* get<I>( a ): return a.data()[ I ], where I < static_size is asserted at
\* compile time
array_md_get(obj, I) ==
    {Outcome(None, ref) :
        ref \in array_md_dereference(obj, array_md_data(obj) + I)}

\* *( a.begin() + I )
array_md_iterate(obj, I) ==
    {Outcome(None, ref) :
        ref \in array_md_dereference(obj, array_md_begin(obj) + I)}

\* one call of the function apply is given: the element (or array) passed and
\* the trailing arguments
Applied(ref, args) == [ref |-> ref, args |-> args]

\* array_apply visiting the sub-arrays from the last to the first
RECURSIVE array_apply_backwards(_, _, _, _)
array_apply_backwards(L, t, args, i) ==
    IF L = 0 THEN <<Applied(t, args)>>
    ELSE IF i >= Head(t.sizes) THEN <<>>
    ELSE array_apply_backwards(L, t, args, i + 1)
         \o array_apply_backwards(L - 1,
                CHOOSE tu \in subscript(t, i) : TRUE, Append(args, i), 0)

\* detail::array_apply( integral_constant<L>, f, t, args... ) from the i-th
\* sub-array on: with L = 0 it is f( t, args... ); otherwise
\* for ( i = 0 ; i < N ; ++i ) array_apply( L - 1, f, t[i], args..., i ).
\* The result is the sequence of the calls of f.
RECURSIVE array_apply(_, _, _, _)
array_apply(L, t, args, i) ==
    IF L = 0 THEN <<Applied(t, args)>>
    ELSE IF i >= Head(t.sizes) THEN <<>>
    ELSE array_apply(L - 1, CHOOSE tu \in subscript(t, i) : TRUE,
                     Append(args, i), 0)
         \o array_apply(L, t, args, i + 1)

\* apply( f ): array_apply( dimensionality, f, data_block ), and
\* f( data_block ) without extents
array_md_apply(obj) ==
    IF obj.static_sizes = <<>> THEN <<Applied(View(0, <<>>), <<>>)>>
    ELSE array_apply(array_md_dimensionality(obj.static_sizes),
                     View(0, obj.static_sizes), <<>>, 0)

\* capply( f ): apply( f ) on the object taken as const
array_md_capply(obj) == array_md_apply(obj)

\* ------------------------------------------------- array_md: state machine
\* what last records of a call on an array_md: the member called, the
\* number of indices passed, the exception thrown, the position of the
\* element or sub-array returned (or the number returned), and the number
\* of indexing operations performed
array_md_Call(op, count, thrown, ref, indexed) ==
    [op |-> op, form |-> count, thrown |-> thrown, ref |-> ref,
     indexed |-> indexed]

\* the index packs of the variadic forms: at most dimensionality indices of
\* a signed type, and none where there are no elements to index
VariadicIndexes(obj) ==
    UNION {[1 .. n -> -1 .. MaxIdx + 1] :
              n \in 0 .. (IF array_md_size(obj) = 0 THEN 0
                          ELSE array_md_dimensionality(obj.static_sizes))}

\* the index lists of the std::initializer_list<size_type> forms: any
\* number of indices, each a size_type
ListIndexes(obj) ==
    UNION {[1 .. n -> 0 .. MaxIdx + 1] :
              n \in 0 .. array_md_dimensionality(obj.static_sizes) + 1}

\* the indices of a chain of operator [] calls
ChainIndexes(obj) ==
    UNION {[1 .. n -> 0 .. MaxIdx + 1] :
              n \in 1 .. (IF array_md_size(obj) = 0 THEN 0
                          ELSE array_md_dimensionality(obj.static_sizes))}

\* whether ref refers to one element of obj
IsElement(obj, ref) ==
    ref.sizes = <<>> /\ ref.pos >= 0 /\ ref.pos < Len(obj.data_block)

\* the element ref refers to
Element(obj, ref) == obj.data_block[ref.pos + 1]

\* ref = v for a reference ref to an element of obj
Assigned(obj, ref, v) == [obj EXCEPT !.data_block[ref.pos + 1] = v]

\* the number of "index" steps among the steps of a checked_slice call
IndexSteps(steps) == Cardinality({k \in DOMAIN steps : steps[k].kind = "index"})

\* a call returns with the outcome o; with write, the caller assigns v
\* through the reference returned
array_md_Return(op, count, o, indexed, write, v) ==
    /\ a' = IF write /\ o.thrown = None /\ IsElement(a, o.ref)
            THEN Assigned(a, o.ref, v) ELSE a
    /\ b' = b
    /\ last' = array_md_Call(op, count, o.thrown, o.ref.pos, indexed)

\* a.size(), a.max_size(), a.empty(), a.data(), a.begin(), a.end()
array_md_observe(op) ==
    /\ UNCHANGED <<a, b>>
    /\ last' = array_md_Call(op, 0, None,
                   CASE op = "size" -> array_md_size(a)
                     [] op = "max_size" -> array_md_max_size(a)
                     [] op = "data" -> array_md_data(a)
                     [] op = "begin" -> array_md_begin(a)
                     [] op = "end" -> array_md_end(a)
                     [] OTHER -> NoPos, 0)

\* a( i... )
array_md_operator_call(i, write, v) ==
    /\ i \in VariadicIndexes(a)
    /\ \E o \in array_md_call(a, i) :
          array_md_Return("operator()", Len(i), o, Len(i), write, v)

\* a( { i... } )
array_md_operator_call_list(i, write, v) ==
    /\ i \in ListIndexes(a)
    /\ \E o \in array_md_call_list(a, i) :
          array_md_Return("operator()(list)", Len(i), o, 0, write, v)

\* a[ { i... } ]
array_md_operator_subscript_list(i, write, v) ==
    /\ a.static_sizes # <<>>
    /\ i \in ListIndexes(a)
    /\ \E o \in array_md_subscript_list(a, i) :
          array_md_Return("operator[](list)", Len(i), o, 0, write, v)

\* a[ i0 ][ i1 ]...
array_md_operator_subscript(i, write, v) ==
    /\ i \in ChainIndexes(a)
    /\ \E o \in array_md_subscript_chain(a, i) :
          array_md_Return("operator[]", Len(i), o, Len(i), write, v)

\* a.at( i... )
array_md_at_variadic(i, write, v) ==
    /\ i \in VariadicIndexes(a)
    /\ \E o \in array_md_at(a, i) :
          array_md_Return("at", Len(i), o, IndexSteps(o.steps), write, v)

\* a.at( { i... } )
array_md_at_initializer_list(i, write, v) ==
    /\ i \in ListIndexes(a)
    /\ \E o \in array_md_at_list(a, i) :
          array_md_Return("at(list)", Len(i), o, 0, write, v)

\* get<I>( a )
array_md_get_element(I, write, v) ==
    /\ I < array_md_size(a)
    /\ \E o \in array_md_get(a, I) :
          array_md_Return("get", 0, o, 0, write, v)

\* *( a.begin() + I ), I up to a.end() - a.begin()
array_md_iterator(I, write, v) ==
    /\ I <= array_md_end(a) - array_md_begin(a)
    /\ \E o \in array_md_iterate(a, I) :
          array_md_Return("iterator", 0, o, 0, write, v)

\* a.apply( f ) and a.capply( f ); with write, f assigns v to the element it
\* is passed.  With static_size 0 data_block is no array and the call of
\* array_apply does not compile.
array_md_apply_function(op, write, v) ==
    /\ array_md_size(a) # 0
    /\ op = "capply" => ~write
    /\ LET calls == IF op = "apply" THEN array_md_apply(a)
                    ELSE array_md_capply(a)
       IN  /\ a' = IF write
                   THEN [a EXCEPT !.data_block =
                            [k \in DOMAIN a.data_block |->
                                IF \E c \in DOMAIN calls : calls[c].ref.pos = k - 1
                                THEN v ELSE a.data_block[k]]]
                   ELSE a
           /\ b' = b
           /\ last' = array_md_Call(op, 0, None,
                          calls[Len(calls)].ref.pos, Len(calls))

\* two value-initialised objects of one instantiation of array_md
InitMD ==
    \E N \in ArrayTypes :
        /\ a = array_md(N)
        /\ b = array_md(N)
        /\ last = array_md_Call("array_md", 0, None, NoPos, 0)

NextMD ==
    \/ \E op \in {"size", "max_size", "empty", "data", "begin", "end"} :
          array_md_observe(op)
    \/ \E i \in VariadicIndexes(a), write \in BOOLEAN, v \in ElementVals :
          array_md_operator_call(i, write, v)
    \/ \E i \in ListIndexes(a), write \in BOOLEAN, v \in ElementVals :
          array_md_operator_call_list(i, write, v)
    \/ \E i \in ListIndexes(a), write \in BOOLEAN, v \in ElementVals :
          array_md_operator_subscript_list(i, write, v)
    \/ \E i \in ChainIndexes(a), write \in BOOLEAN, v \in ElementVals :
          array_md_operator_subscript(i, write, v)
    \/ \E i \in VariadicIndexes(a), write \in BOOLEAN, v \in ElementVals :
          array_md_at_variadic(i, write, v)
    \/ \E i \in ListIndexes(a), write \in BOOLEAN, v \in ElementVals :
          array_md_at_initializer_list(i, write, v)
    \/ \E I \in 0 .. SizeMax, write \in BOOLEAN, v \in ElementVals :
          array_md_get_element(I, write, v)
    \/ \E I \in 0 .. SizeMax, write \in BOOLEAN, v \in ElementVals :
          array_md_iterator(I, write, v)
    \/ \E op \in {"apply", "capply"}, write \in BOOLEAN, v \in ElementVals :
          array_md_apply_function(op, write, v)

SpecMD == InitMD /\ [][NextMD]_vars

\* ------------------------------------------------------------------- C17
\* the index tuples of full length with every index below its extent
ValidIndexes(obj) ==
    {i \in [1 .. array_md_dimensionality(obj.static_sizes) -> 0 .. MaxIdx + 1] :
        \A k \in DOMAIN i : i[k] < obj.static_sizes[k]}

\* the row-major stride of the k-th extent: the product of the later ones
RowMajorStride(N, k) == Product(N, (k + 1) .. Len(N))

\* the sum of f over the set S of positions
RECURSIVE Sum(_, _)
Sum(f, S) ==
    IF S = {} THEN 0
    ELSE LET d == CHOOSE x \in S : TRUE IN f[d] + Sum(f, S \ {d})

\* SUM_k i_k * stride_k
RowMajorOffset(N, i) ==
    Sum([k \in DOMAIN i |-> i[k] * RowMajorStride(N, k)], DOMAIN i)

\* the access paths an instantiation offers for a full index tuple
AccessPaths(obj) ==
    IF obj.static_sizes = <<>> THEN {"operator()", "operator()(list)"}
    ELSE {"operator()", "operator()(list)", "operator[](list)", "operator[]"}

\* the outcomes of the access path p for the indices i
Access(obj, p, i) ==
    CASE p = "operator()" -> array_md_call(obj, i)
      [] p = "operator()(list)" -> array_md_call_list(obj, i)
      [] p = "operator[](list)" -> array_md_subscript_list(obj, i)
      [] p = "operator[]" -> array_md_subscript_chain(obj, i)

\* C17: for every valid index tuple of an array_md, operator()( i... ),
\* operator()( {i...} ), operator[]( {i...} ) and chained operator[] each
\* return the element data()[ SUM_k i_k * stride_k ] for the row-major
\* strides stride_k = N_{k+1} * ... * N_{r-1}; a value assigned through the
\* reference one of them returns is read through every other; get<I> and
\* begin() + I denote data()[ I ].
C17_AccessPathsAgree ==
    /\ \A i \in ValidIndexes(a) :
          LET e == View(array_md_data(a) + RowMajorOffset(a.static_sizes, i),
                        <<>>)
          IN  /\ IsElement(a, e)
              /\ \A p \in AccessPaths(a) : Access(a, p, i) = {Outcome(None, e)}
              /\ \A p \in AccessPaths(a), v \in ElementVals :
                    \A o \in Access(a, p, i) :
                       LET w == Assigned(a, o.ref, v)
                       IN  \A q \in AccessPaths(a) :
                              \A r \in Access(w, q, i) :
                                 /\ IsElement(w, r.ref)
                                 /\ Element(w, r.ref) = v
    /\ \A I \in 0 .. array_md_size(a) - 1 :
          LET e == View(array_md_data(a) + I, <<>>)
          IN  /\ array_md_get(a, I) = {Outcome(None, e)}
              /\ array_md_iterate(a, I) = {Outcome(None, e)}
    /\ (last.op \in AccessPaths(a) /\ last.ref >= 0
            /\ last.form = array_md_dimensionality(a.static_sizes))
          => \E i \in ValidIndexes(a) :
                last.ref = array_md_data(a) + RowMajorOffset(a.static_sizes, i)

\* the last element of a two-dimensional array was reached through
\* operator[]( {1, 2} ) and assigned
C17_Witness ==
    /\ a.static_sizes = <<2, 3>>
    /\ last.op = "operator[](list)"
    /\ last.form = 2
    /\ last.ref = 5
    /\ a.data_block[6] \in ElementVals
    /\ \A k \in 1 .. 5 : a.data_block[k] = 0

\* ------------------------------------------------------------------- C18
\* some index of the list is not below its extent
SomeIndexTooLarge(obj, i) ==
    \E k \in DOMAIN i : k <= Len(obj.static_sizes) /\ i[k] >= obj.static_sizes[k]

\* some index of the pack is negative or not below its extent
SomeIndexOutside(obj, i) ==
    \E k \in DOMAIN i : i[k] < 0 \/ i[k] >= obj.static_sizes[k]

\* what is required of at for the object obj: the list form throws
\* length_error exactly for a wrong number of indices, whatever the indices
\* are, and with the right number out_of_range exactly when some index is
\* not below its extent; the variadic form throws out_of_range exactly when
\* some index is negative or not below its extent; a call that does not
\* throw returns what operator() returns for the same indices
AtRaises(obj) ==
    /\ \A i \in ListIndexes(obj) :
          \A o \in array_md_at_list(obj, i) :
             /\ o.thrown \in {None, "length_error", "out_of_range"}
             /\ o.thrown = "length_error"
                   <=> Len(i) # array_md_dimensionality(obj.static_sizes)
             /\ Len(i) = array_md_dimensionality(obj.static_sizes)
                   => (o.thrown = "out_of_range" <=> SomeIndexTooLarge(obj, i))
             /\ o.thrown = None
                   => array_md_call_list(obj, i) = {Outcome(None, o.ref)}
    /\ \A i \in VariadicIndexes(obj) :
          \A o \in array_md_at(obj, i) :
             /\ o.thrown \in {None, "out_of_range"}
             /\ o.thrown = "out_of_range" <=> SomeIndexOutside(obj, i)
             /\ o.thrown = None
                   => array_md_call(obj, i) = {Outcome(None, o.ref)}

\* C18: at( {i...} ) throws length_error if and only if the number of
\* indices differs from the rank, decided before any index is examined, and
\* with the right number throws out_of_range if and only if some i_k >= N_k;
\* at( i... ) with at most rank indices throws out_of_range if and only if
\* some index is negative or >= its extent; where at does not throw it
\* returns the element or sub-array operator() returns for the same indices.
C18_AtRaises == AtRaises(a)

\* the same for the arrays that have elements
C18_AtRaisesWithElements == array_md_size(a) # 0 => AtRaises(a)

\* at( {i} ) with one index on an array whose only extent is 0 ended in the
\* division by zero instead of the exception
C18_Witness ==
    /\ a.static_sizes = <<0>>
    /\ last.op = "at(list)"
    /\ last.form = 1
    /\ last.thrown = "fault"

\* ------------------------------------------------------------------- C19
\* the exception objects a caller may hand to checked_slice
CallerExceptions == {"out_of_range", "length_error"}

\* the positions of the indices of a pack that are negative or not below
\* the bound of their level
Offending(obj, i) ==
    {k \in DOMAIN i : i[k] < 0 \/ i[k] >= obj.static_sizes[k]}

\* the first of a nonempty set of positions
First(S) == CHOOSE k \in S : \A j \in S : k <= j

\* the steps of kind kind among steps, in order
RECURSIVE StepsOfKind(_, _)
StepsOfKind(steps, kind) ==
    IF steps = <<>> THEN <<>>
    ELSE IF Head(steps).kind = kind
    THEN <<Head(steps)>> \o StepsOfKind(Tail(steps), kind)
    ELSE StepsOfKind(Tail(steps), kind)

\* C19: checked_slice checks the indices one level at a time from the
\* outermost inwards and throws the caller's exception strictly before the
\* indexing step of the first offending index: no indexing is ever performed
\* with an index that is negative or >= the bound of its level, and the
\* indexing steps of the valid indices before the first offending one are
\* performed.
C19_ThrowBeforeIndexing ==
    /\ \A e \in CallerExceptions, i \in VariadicIndexes(a) :
          \A o \in checked_slice(e, View(0, a.static_sizes), i, <<>>) :
             LET indexing == StepsOfKind(o.steps, "index")
                 compares == StepsOfKind(o.steps, "compare")
                 bad == Offending(a, i)
                 valid == IF bad = {} THEN Len(i) ELSE First(bad) - 1
             IN  /\ \A k \in DOMAIN indexing :
                       /\ indexing[k].u >= 0
                       /\ indexing[k].u < indexing[k].bound
                       /\ indexing[k].u = i[k]
                       /\ indexing[k].bound = a.static_sizes[k]
                       /\ indexing[k].level = k - 1
                 /\ Len(indexing) = valid
                 /\ \A k \in DOMAIN compares : compares[k].level = k - 1
                 /\ \A k \in DOMAIN o.steps :
                       o.steps[k].kind = "index"
                          => /\ k > 1
                             /\ o.steps[k - 1].kind = "compare"
                             /\ o.steps[k - 1].level = o.steps[k].level
                 /\ bad = {}
                       => /\ o.thrown = None
                          /\ Len(compares) = Len(i)
                          /\ \A k \in DOMAIN o.steps : o.steps[k].kind # "throw"
                 /\ bad # {}
                       => /\ o.thrown = e
                          /\ Len(compares) = valid + 1
                          /\ o.steps[Len(o.steps)].kind = "throw"
                          /\ o.steps[Len(o.steps)].level = valid
                          /\ o.steps[Len(o.steps)].u = i[First(bad)]
                          /\ \A k \in 1 .. Len(o.steps) - 1 :
                                o.steps[k].kind # "throw"
    /\ last.op = "at"
          => /\ last.indexed <= last.form
             /\ last.thrown = None <=> last.indexed = last.form

\* at( 1, 0, -1 ) or the like on a three-dimensional array threw after
\* indexing with its two valid indices
C19_Witness ==
    /\ Len(a.static_sizes) = 3
    /\ last.op = "at"
    /\ last.thrown = "out_of_range"
    /\ last.form = 3
    /\ last.indexed = 2

\* ------------------------------------------------------------------- C20
\* C20: static_size of an array_md is the product of its extents and
\* dimensionality the number of extents; an array without extents has
\* size() = 1 and is not empty; size() = max_size() always; an array whose
\* first extent is 0 has size() = 0, is empty, and begin() = end().
C20_StaticSize ==
    /\ \A N \in ArrayTypes, s \in Sizeofs :
          /\ static_size_for(N, s) = Product(N, DOMAIN N)
          /\ array_md_dimensionality(N) = Len(N)
    /\ \A obj \in Objects :
          /\ array_md_size(obj) = Product(obj.static_sizes, DOMAIN obj.static_sizes)
          /\ Len(obj.data_block) = array_md_size(obj)
          /\ array_md_size(obj) = array_md_max_size(obj)
          /\ array_md_end(obj) - array_md_begin(obj) = array_md_size(obj)
          /\ obj.static_sizes = <<>>
                => array_md_size(obj) = 1 /\ ~array_md_empty(obj)
          /\ (obj.static_sizes # <<>> /\ Head(obj.static_sizes) = 0)
                => /\ array_md_size(obj) = 0
                   /\ array_md_empty(obj)
                   /\ array_md_begin(obj) = array_md_end(obj)
    /\ last.op \in {"size", "max_size"}
          => last.ref = Product(a.static_sizes, DOMAIN a.static_sizes)
    /\ last.op = "end" => last.ref = array_md_begin(a) + array_md_size(a)

\* end() was called on a two-dimensional array whose first extent is 0 and
\* returned what begin() returns
C20_Witness ==
    /\ Len(a.static_sizes) = 2
    /\ a.static_sizes[1] = 0
    /\ last.op = "end"
    /\ last.ref = array_md_begin(a)
    /\ array_md_empty(a)

\* ------------------------------------------------------------------- C21
\* the index tuple i comes before the index tuple j in row-major order: at
\* the first position where they differ i is smaller
RowMajorBefore(i, j) ==
    \E k \in DOMAIN i :
        /\ i[k] < j[k]
        /\ \A m \in 1 .. k - 1 : i[m] = j[m]

\* C21: apply( f ) and capply( f ) of an array_md call f exactly static_size
\* times, once per element, in the order of forward iteration (row-major,
\* the last index varying fastest), and the trailing arguments of each call
\* are the dimensionality coordinates of the element passed: the element
\* operator()( i0, ..., i_{r-1} ) denotes.
C21_ApplyVisitsInOrder ==
    /\ array_md_size(a) # 0 =>
          LET calls == array_md_apply(a)
          IN  /\ array_md_capply(a) = calls
              /\ Len(calls) = array_md_size(a)
              /\ \A k \in DOMAIN calls :
                    /\ array_md_iterate(a, k - 1) = {Outcome(None, calls[k].ref)}
                    /\ Len(calls[k].args)
                          = array_md_dimensionality(a.static_sizes)
                    /\ calls[k].args \in ValidIndexes(a)
                    /\ array_md_call(a, calls[k].args)
                          = {Outcome(None, calls[k].ref)}
              /\ \A j, k \in DOMAIN calls :
                    j < k => /\ calls[j].ref # calls[k].ref
                             /\ RowMajorBefore(calls[j].args, calls[k].args)
    /\ last.op \in {"apply", "capply"}
          => /\ last.indexed = array_md_size(a)
             /\ last.ref = array_md_end(a) - 1

\* apply has called a function that assigns on each of the six elements of
\* a two-dimensional array, the last call on the last element
C21_Witness ==
    /\ a.static_sizes = <<2, 3>>
    /\ last.op = "apply"
    /\ last.indexed = 6
    /\ last.ref = 5
    /\ \A k \in DOMAIN a.data_block : a.data_block[k] \in ElementVals

\* ============================================== array_md: the comparisons
\* The comparison operators are functions of two array_md objects of one
\* shape; here a is the left operand l and b the right operand r, drawn
\* from every pair of arrays over the element values, and last holds the
\* operator called and what it returned.

\* the largest element value compared
MaxVal == 2

\* the shapes whose arrays are compared
CompareTypes == {<<>>, <<0>>, <<2>>, <<2, 2>>, <<2, 1, 2>>}

\* the arrays of the shape N over the element values
ArraysOf(N) ==
    {[static_sizes |-> N, data_block |-> d] :
        d \in [1 .. static_size_for(N, sizeof_value_type) -> 0 .. MaxVal]}

\* std::mismatch looking for the last position where the ranges differ
RECURSIVE std_mismatch_last(_, _, _)
std_mismatch_last(l, r, first) ==
    IF \A k \in first .. array_md_end(l) - 1 :
           l.data_block[k + 1] = r.data_block[k + 1]
    THEN array_md_end(l)
    ELSE CHOOSE k \in first .. array_md_end(l) - 1 :
             /\ l.data_block[k + 1] # r.data_block[k + 1]
             /\ \A j \in k + 1 .. array_md_end(l) - 1 :
                   l.data_block[j + 1] = r.data_block[j + 1]

\* std::mismatch( first, l.end(), r.begin() + first ): the first position
\* from first on where the two ranges differ, l.end() if there is none
RECURSIVE std_mismatch(_, _, _)
std_mismatch(l, r, first) ==
    IF first = array_md_end(l) THEN first
    ELSE IF l.data_block[first + 1] # r.data_block[first + 1] THEN first
    ELSE std_mismatch(l, r, first + 1)

\* std::equal( first, l.end(), r.begin() + first )
RECURSIVE std_equal(_, _, _)
std_equal(l, r, first) ==
    IF first = array_md_end(l) THEN TRUE
    ELSE IF l.data_block[first + 1] # r.data_block[first + 1] THEN FALSE
    ELSE std_equal(l, r, first + 1)

\* operator ==: std::equal( l.begin(), l.end(), r.begin() )
operator_equal(l, r) == std_equal(l, r, array_md_begin(l))

\* operator !=: !( l == r )
operator_not_equal(l, r) == ~operator_equal(l, r)

\* operator <: s = std::mismatch( l.begin(), l.end(), r.begin() );
\* ( s.first != l.end() ) && ( *s.first < *s.second )
operator_less(l, r) ==
    LET s == std_mismatch(l, r, array_md_begin(l))
    IN  s # array_md_end(l) /\ l.data_block[s + 1] < r.data_block[s + 1]

\* operator >: operator <( r, l )
operator_greater(l, r) == operator_less(r, l)

\* operator >=: not operator <( l, r )
operator_greater_equal(l, r) == ~operator_less(l, r)

\* operator <=: not operator >( l, r )
operator_less_equal(l, r) == ~operator_greater(l, r)

\* what last records of a comparison
Compared(op, result) == [op |-> op, result |-> result]

\* l == r, l != r, l < r, l > r, l >= r, l <= r
compare_equal ==
    UNCHANGED <<a, b>> /\ last' = Compared("==", operator_equal(a, b))

compare_not_equal ==
    UNCHANGED <<a, b>> /\ last' = Compared("!=", operator_not_equal(a, b))

compare_less ==
    UNCHANGED <<a, b>> /\ last' = Compared("<", operator_less(a, b))

compare_greater ==
    UNCHANGED <<a, b>> /\ last' = Compared(">", operator_greater(a, b))

compare_greater_equal ==
    UNCHANGED <<a, b>> /\ last' = Compared(">=", operator_greater_equal(a, b))

compare_less_equal ==
    UNCHANGED <<a, b>> /\ last' = Compared("<=", operator_less_equal(a, b))

\* any two arrays of one shape
InitCompare ==
    \E N \in CompareTypes :
        /\ a \in ArraysOf(N)
        /\ b \in ArraysOf(N)
        /\ last = Compared("array_md", FALSE)

NextCompare ==
    \/ compare_equal
    \/ compare_not_equal
    \/ compare_less
    \/ compare_greater
    \/ compare_greater_equal
    \/ compare_less_equal

SpecCompare == InitCompare /\ [][NextCompare]_vars

\* ------------------------------------------------------------------- C22
\* the positions where l and r differ, in forward-iteration order
Differing(l, r) ==
    {k \in DOMAIN l.data_block : l.data_block[k] # r.data_block[k]}

\* at the first position where l and r differ the element of l is less
FirstDifferenceLess(l, r) ==
    /\ Differing(l, r) # {}
    /\ l.data_block[First(Differing(l, r))] < r.data_block[First(Differing(l, r))]

TargetBits == 1

\* the shapes created and converted
MakeTypes == {<<>>, <<0>>, <<2>>, <<3>>, <<2, 2>>}

\* static_cast<T>( u )
static_cast_T(u) == u % (2 ^ TargetBits)

\* T{}
value_initialized == 0

\* array_md<T, N...>{ { inits... } }: the initialisers fill the nested array
\* in memory order, braces elided, and what is left is value-initialised
aggregate_initialize(N, inits) ==
    [static_sizes |-> N,
     data_block |-> [k \in 1 .. static_size_for(N, sizeof_value_type) |->
                       IF k <= Len(inits) THEN inits[k] ELSE value_initialized]]

\* make_array<T, N...>( args... ): array_md<T, N...>{ { static_cast<T>(
\* args )... } }, and without extents array_md<T>{ static_cast<T>( args )... }
make_array(N, args) ==
    aggregate_initialize(N, [k \in DOMAIN args |-> static_cast_T(args[k])])

\* std::transform( first, first + n, out, op ) with op the static_cast:
\* the first n elements of out are assigned
std_transform(source, n, out) ==
    [out EXCEPT !.data_block =
        [k \in DOMAIN out.data_block |->
            IF k <= n THEN static_cast_T(source.data_block[k])
            ELSE out.data_block[k]]]

\* remake_array copying the source from its end
remake_array_reversed(N, source) ==
    LET result == aggregate_initialize(N, <<>>)
        n == min(array_md_size(source), array_md_size(result))
    IN  [result EXCEPT !.data_block =
            [k \in DOMAIN result.data_block |->
                IF k <= n
                THEN static_cast_T(source.data_block[array_md_size(source) + 1 - k])
                ELSE result.data_block[k]]]

\* remake_array<T, N...>( source ): result{}, then std::transform over the
\* first std::min( source.size(), result.size() ) elements of the source
remake_array(N, source) ==
    LET result == aggregate_initialize(N, <<>>)
    IN  std_transform(source,
                      min(array_md_size(source), array_md_size(result)),
                      result)

\* operator array_md<U, N...>(): convert_array, array_md<U, N...>{ {
\* static_cast<U>( *(t.data() + I) )... } } for I = 0 .. static_size - 1
convert_array(t) ==
    aggregate_initialize(t.static_sizes,
        [I \in 1 .. array_md_size(t) |-> static_cast_T(t.data_block[I])])

\* what last records of a creation: the function and the number of values
Created(op, count) == [op |-> op, count |-> count]

\* a = make_array<T, N...>( args... ), the arguments being the first m
\* elements of b; more arguments than elements do not compile
make_array_call(m) ==
    /\ m <= array_md_size(a)
    /\ m <= array_md_size(b)
    /\ a' = make_array(a.static_sizes, SubSeq(b.data_block, 1, m))
    /\ b' = b
    /\ last' = Created("make_array", m)

\* a = remake_array<T, N...>( b )
remake_array_call ==
    /\ a' = remake_array(a.static_sizes, b)
    /\ b' = b
    /\ last' = Created("remake_array", array_md_size(b))

\* a = static_cast<array_md<T, N...>>( b ), b having the shape of a
convert_call ==
    /\ a.static_sizes = b.static_sizes
    /\ a' = convert_array(b)
    /\ b' = b
    /\ last' = Created("operator array_md", array_md_size(b))

\* a value-initialised array of one shape and any source array
InitMake ==
    \E N \in MakeTypes, M \in MakeTypes :
        /\ a = aggregate_initialize(N, <<>>)
        /\ b \in ArraysOf(M)
        /\ last = Created("array_md", 0)

NextMake ==
    \/ \E m \in 0 .. SizeMax : make_array_call(m)
    \/ remake_array_call
    \/ convert_call

SpecMake == InitMake /\ [][NextMake]_vars

\* ------------------------------------------------------------------- C23
\* element k in forward-iteration order of x is the converted k-th input
\* for k < min(m, size) and T{} for m <= k < size, the inputs being the
\* first m elements of source
MappedLinearly(x, source, m) ==
    \A k \in 0 .. array_md_size(x) - 1 :
        \A o \in array_md_iterate(x, k) :
            /\ IsElement(x, o.ref)
            /\ Element(x, o.ref)
                  = IF k < min(m, array_md_size(x))
                    THEN static_cast_T(source.data_block[k + 1])
                    ELSE value_initialized

\* C23: make_array given m values, remake_array given a source of m
\* elements of any shape, and the cross-type conversion operator return an
\* array whose element k in forward-iteration order is the converted k-th
\* input for every k < min(m, size of the result) and T{} for every k with
\* m <= k < size; source elements beyond the size of the result are dropped.
C23_CreationIsLinear ==
    /\ \A N \in MakeTypes :
          /\ \A m \in 0 .. min(static_size_for(N, sizeof_value_type),
                               array_md_size(b)) :
                LET x == make_array(N, SubSeq(b.data_block, 1, m))
                IN  /\ x.static_sizes = N
                    /\ Len(x.data_block) = static_size_for(N, sizeof_value_type)
                    /\ MappedLinearly(x, b, m)
          /\ LET x == remake_array(N, b)
             IN  /\ x.static_sizes = N
                 /\ Len(x.data_block) = static_size_for(N, sizeof_value_type)
                 /\ MappedLinearly(x, b, array_md_size(b))
    /\ LET x == convert_array(b)
       IN  /\ x.static_sizes = b.static_sizes
           /\ Len(x.data_block) = array_md_size(b)
           /\ MappedLinearly(x, b, array_md_size(b))
    /\ last.op \in {"make_array", "remake_array", "operator array_md"}
          => MappedLinearly(a, b, last.count)

\* remake_array has made an array of three elements from a two-dimensional
\* source of four, converting a value that does not fit and dropping the
\* fourth element
C23_Witness ==
    /\ last.op = "remake_array"
    /\ last.count = 4
    /\ b.static_sizes = <<2, 2>>
    /\ a.static_sizes = <<3>>
    /\ b.data_block = <<1, 2, 1, 1>>
    /\ a.data_block = <<1, 0, 1>>

\* ------------------------------------------------------------------- C24
\* the index lists with more indices than the rank
TooManyIndexes(obj) ==
    {i \in ListIndexes(obj) : Len(i) > array_md_dimensionality(obj.static_sizes)}

\* the list forms an instantiation offers
ListForms(obj) == AccessPaths(obj) \cap {"operator()(list)", "operator[](list)"}

\* C24 as stated: operator()( {...} ) and operator[]( {...} ) raise an error
\* instead of returning an element reference whenever the list holds more
\* indices than the rank.
C24_ListFormsFailLoudly ==
    \A p \in ListForms(a), i \in TooManyIndexes(a) :
        \A o \in Access(a, p, i) : o.thrown # None

\* C24 as the code has it: operator()( {...} ) and operator[]( {...} ) never
\* raise.  With more indices than the rank, an array without extents
\* returns its sole element whatever the list holds; an array with extents
\* divides the stride by whatever lies behind static_sizes, so that the
\* call returns a reference to some element, or a reference to no element,
\* or faults, and which of these is not determined by the indices.
C24_ListFormsNeverRaise ==
    /\ \A p \in ListForms(a), i \in ListIndexes(a) :
          \A o \in Access(a, p, i) : o.thrown = None
    /\ \A p \in ListForms(a), i \in TooManyIndexes(a) :
          /\ a.static_sizes = <<>>
                => Access(a, p, i) = {Outcome(None, View(0, <<>>))}
          /\ a.static_sizes # <<>>
                => /\ \E o \in Access(a, p, i) : o.ref \in UBRefs
                   /\ \A o \in Access(a, p, i) :
                         o.ref \in UBRefs \/ IsElement(a, o.ref)
    /\ last.op \in {"operator()(list)", "operator[](list)"}
          => last.thrown = None

\* operator[] was given three indices on a two-dimensional array and
\* returned a reference to its last element
C24_Witness ==
    /\ a.static_sizes = <<2, 3>>
    /\ last.op = "operator[](list)"
    /\ last.form = 3
    /\ last.thrown = None
    /\ last.ref = 5

\* ------------------------------------------------------------------- C25
\* C25: at validates the indices against the current extents only, never
\* against the size of the container: whether it throws does not depend on
\* the container, and for an index tuple within the extents whose offset is
\* >= size() (possible whenever required_size() > size()) at throws nothing
\* and addresses a position outside the container.
C25_AtIgnoresContainerSize ==
    \A i \in IdxInputs :
        LET r == do_access(a, i, TRUE)
            offset == indexes_to_offset(a.stats, i)
        IN  /\ \A cc \in Containers :
                  do_access([c |-> cc, stats |-> a.stats], i, TRUE).thrown
                      = r.thrown
            /\ InRange(a.stats, i) =>
                  /\ r.thrown = None
                  /\ offset < required_size(a.stats)
                  /\ offset >= Len(a.c) => r.refs = UBVals
                  /\ offset < Len(a.c) => r.refs = {offset}

\* at was called with indices within the extents of a shape that requires
\* more elements than the container has, threw nothing and returned a
\* reference to no element of the container
C25_Witness ==
    /\ last.op = "at"
    /\ last.thrown = None
    /\ last.ref \in UBVals
    /\ Len(a.c) = MaxLen
    /\ required_size(a.stats) > Len(a.c)

\* ============================================== multiarray: inside apply
\* apply( f ) one iteration at a time, on a view of any valid shape over a
\* container of any length up to SizeMax.

\* the shapes a view can be given: valid extents in a priority order
ShapeExtents == {e \in [Dims -> 1 .. SizeMax] : ValidExtents(e)}
ShapePriorities == {p \in [Dims -> Dims] : IsPermutationOfDims(p)}

\* the containers a view can be built over: 1, 2, ..., n
ShapeContainers == {[k \in 1 .. n |-> k] : n \in 0 .. SizeMax}

\* where apply stands: how many calls of f are still to come, the position
\* of the element the next call gets, the indexes it gets, and what the last
\* advance_index_pack returned
apply_Call(op, limit, current, indexes, turnover) ==
    [op |-> op, limit |-> limit, current |-> current, indexes |-> indexes,
     turnover |-> turnover]

\* a view built over a container and given a shape by
\* extents_and_priorities( e, p ); apply has not been called
InitApply ==
    /\ \E cc \in ShapeContainers, e \in ShapeExtents, p \in ShapePriorities :
          a = [c |-> cc,
               stats |-> do_extents_and_priorities(
                             multiarray(cc).stats, e, p).stats]
    /\ b = multiarray(<<>>)
    /\ last = apply_Call("multiarray", 0, 0, first_index_pack, FALSE)

\* apply( f ) and capply( f ) up to the loop: limit, current and indexes
apply_enter(op) ==
    /\ last.limit = 0
    /\ last' = apply_Call(op, apply_limit(a), 0, first_index_pack, FALSE)
    /\ UNCHANGED <<a, b>>

\* one turn of while ( limit-- ): f( *current++, indexes... ) with an f that
\* reads, then advance_index_pack( indexes )
apply_iterate ==
    /\ last.limit > 0
    /\ LET r == advance_index_pack(a.stats, last.indexes)
       IN  last' = apply_Call("advance_index_pack", last.limit - 1,
                              last.current + 1, r.indexes, r.turnover)
    /\ UNCHANGED <<a, b>>

NextApply ==
    \/ \E op \in {"apply", "capply"} : apply_enter(op)
    \/ apply_iterate

SpecApply == InitApply /\ [][NextApply]_vars

\* ------------------------------------------------------------------- C26
\* a carry reaches dimension d: every less-major index stands at its last
\* value
CarryInto(stats, indexes, d) ==
    \A x \in LessMajor(stats, d) : indexes[x] + 1 = stats.extents_i[x]

\* the tuple after indexes by the odometer rule
Odometer(stats, indexes) ==
    [d \in Dims |->
        IF ~CarryInto(stats, indexes, d) THEN indexes[d]
        ELSE IF indexes[d] + 1 = stats.extents_i[d] THEN 0
        ELSE indexes[d] + 1]

\* each index below its extent
ValidTuple(stats, indexes) == \A d \in Dims : indexes[d] < stats.extents_i[d]

\* C26: advance_index_pack on a valid tuple increments the least-major index
\* and carries into the next more major one whenever an index reaches its
\* extent; the result is valid; it returns true exactly when the result is
\* the all-zero tuple, and counting from the zero tuple that is at the
\* required_size()-th advance and at no earlier one.
C26_OdometerAdvance ==
    [][apply_iterate =>
          /\ ValidTuple(a.stats, last.indexes)
          /\ last'.indexes = Odometer(a.stats, last.indexes)
          /\ ValidTuple(a.stats, last'.indexes)
          /\ last'.turnover <=> last'.indexes = first_index_pack
          /\ last'.turnover <=> last'.current = required_size(a.stats)
          /\ last'.current <= required_size(a.stats)]_vars

\* the odometer has carried out of the least-major index and has come back
\* to the zero tuple, in a view of more than one row and column
C26_Witness ==
    /\ last.op = "advance_index_pack"
    /\ last.turnover
    /\ last.indexes = first_index_pack
    /\ last.current = required_size(a.stats)
    /\ \A d \in Dims : a.stats.extents_i[d] > 1
    /\ a.stats.priorities_i = column_major_order

\* ------------------------------------------------------------------- C27
\* the indexes apply passes to f, as the index list of an accessor
IndexList(indexes) == [k \in 1 .. Rank |-> indexes[k - 1]]

\* SUM_d coord[d] * stride[d]
StrideSum(stats, indexes) ==
    Sum([d \in Dims |-> indexes[d] * stats.strides_i[d]], Dims)

\* C27: for every priority order, the indexes apply passes to f together
\* with the element at container position k satisfy
\* SUM_d coord[d] * stride[d] = k: operator() with these indexes on the same
\* view denotes the very element passed, and the k-th value of the odometer
\* is the one valid index tuple whose offset is k.
C27_ApplyCoordinatesAddressElement ==
    last.limit > 0 =>
        /\ last.current < Len(a.c)
        /\ StrideSum(a.stats, last.indexes) = last.current
        /\ do_access(a, IndexList(last.indexes), FALSE)
               = [thrown |-> None, refs |-> {last.current}]
        /\ do_access(a, IndexList(last.indexes), TRUE)
               = [thrown |-> None, refs |-> {last.current}]
        /\ \A i \in [Dims -> 0 .. SizeMax] :
              (ValidTuple(a.stats, i)
                  /\ indexes_to_offset(a.stats, IndexList(i)) = last.current)
                  => i = last.indexes

\* apply is about to call f with an element that is neither the first of the
\* container nor in the first row or column, in a view that is not row-major
C27_Witness ==
    /\ last.op = "advance_index_pack"
    /\ last.limit > 0
    /\ a.stats.priorities_i # row_major_order
    /\ \A d \in Dims : last.indexes[d] > 0
    /\ last.current > 1

\* ------------------------------------------------------------------- C28
\* the largest member of a non-empty set of numbers
Largest(S) == CHOOSE x \in S : \A y \in S : y <= x

\* the valid index tuples of a shape: each index below its extent
ValidTuples(stats) ==
    {i \in [Dims -> 0 .. (Largest({stats.extents_i[d] : d \in Dims}) - 1)] :
        ValidTuple(stats, i)}

\* the offsets indexes_to_offset gives the valid index tuples
OffsetsOf(stats) ==
    {indexes_to_offset(stats, IndexList(i)) : i \in ValidTuples(stats)}

\* C28: in every reachable state the mapping from index tuples to offsets
\* is a bijection from the valid index tuples onto 0 .. required_size() - 1:
\* two different valid tuples never share a container position (there are
\* as many offsets as tuples), every offset below required_size() belongs to
\* some valid tuple, and the largest offset is required_size() - 1.
C28_OffsetsAreBijective ==
    \A obj \in Objects :
        LET offsets == OffsetsOf(obj.stats)
        IN  /\ Cardinality(offsets) = Cardinality(ValidTuples(obj.stats))
            /\ offsets = 0 .. (required_size(obj.stats) - 1)
            /\ (required_size(obj.stats) - 1) \in offsets
            /\ \A o \in offsets : o <= required_size(obj.stats) - 1

\* a holds a shape with more than one row and column that is not row-major,
\* left by a setter that succeeded
C28_Witness ==
    /\ last.op \in {"priorities", "extents_and_priorities",
                    "use_column_major_order"}
    /\ last.thrown = None
    /\ a.stats.priorities_i # row_major_order
    /\ \A d \in Dims : a.stats.extents_i[d] > 1

\* ------------------------------------------------------------------- C29
\* the index pair exchanged
Transposed(i) == [d \in Dims |-> i[Rank - 1 - d]]

\* a container of n elements, each of the value v
Filled(n, v) == [k \in 1 .. n |-> v]

\* the values the destinations of a copy hold before it
DestinationVals == {-1, -2}

\* a view over the container cc with the extents e, row-major
RowMajorView(cc, e) ==
    [c |-> cc, stats |-> do_extents(multiarray(cc).stats, e).stats]

\* a view over the container cc with the extents e, column-major
ColumnMajorView(cc, e) ==
    [c |-> cc,
     stats |-> do_extents_and_priorities(multiarray(cc).stats, e,
                                         column_major_order).stats]

\* the container no longer defined: a write went outside it
Undefined == <<NoPos>>

\* source.apply( [&](x, i0, i1){ dst( i0, i1 ) = x; } ), or dst( i1, i0 ) = x
\* with transpose, from the k-th call of f on: the container of dst after it
RECURSIVE CopyLoop(_, _, _, _, _)
CopyLoop(source, dst, calls, k, transpose) ==
    IF k > Len(calls) THEN dst.c
    ELSE LET i == IF transpose THEN Transposed(calls[k].indexes)
                  ELSE calls[k].indexes
             refs == do_access(dst, IndexList(i), FALSE).refs
             pos == CHOOSE x \in refs : TRUE
         IN  IF refs \cap UBVals # {} THEN Undefined
             ELSE CopyLoop(source,
                           [dst EXCEPT !.c[pos + 1] =
                               source.c[calls[k].pos + 1]],
                           calls, k + 1, transpose)

\* the container of dst after the copy of every element apply visits
Copy(source, dst, transpose) ==
    CopyLoop(source, dst, do_apply(source), 1, transpose)

\* C29: with two dimensions and any extents (e0, e1), the offset of (i0, i1)
\* under column-major extents (e0, e1) is the offset of (i1, i0) under
\* row-major extents (e1, e0).  So copying a row-major source with apply
\* into a row-major view of the exchanged extents, writing at (i1, i0), and
\* into a column-major view of the same extents, writing at (i0, i1), writes
\* the same values to the same positions: the two containers come out
\* identical when they started with the same contents or are no longer than
\* the shape requires.
C29_ColumnMajorIsTransposedRowMajor ==
    LET e == a.stats.extents_i
        n == Len(a.c)
    IN  /\ Rank = 2
        /\ \A i \in ValidTuples(a.stats) :
              indexes_to_offset(ColumnMajorView(a.c, e).stats, IndexList(i))
                  = indexes_to_offset(
                        RowMajorView(a.c, Transposed(e)).stats,
                        IndexList(Transposed(i)))
        /\ a.stats.priorities_i = row_major_order =>
              \A v, w \in DestinationVals :
                  LET tp == Copy(a, RowMajorView(Filled(n, v), Transposed(e)),
                                 TRUE)
                      cm == Copy(a, ColumnMajorView(Filled(n, w), e), FALSE)
                  IN  /\ tp = Undefined <=> cm = Undefined
                      /\ (tp # Undefined /\ n >= required_size(a.stats)) =>
                            \A k \in 1 .. required_size(a.stats) :
                                tp[k] = cm[k] /\ tp[k] \notin DestinationVals
                      /\ (v = w \/ n <= required_size(a.stats)) => tp = cm

\* apply has gone through a row-major source of more than one row and of
\* more rows than columns, or fewer, whose container holds exactly what the
\* shape requires: both copies are defined and fill their containers
C29_Witness ==
    /\ last.op = "advance_index_pack"
    /\ last.limit = 0
    /\ a.stats.priorities_i = row_major_order
    /\ a.stats.extents_i[0] > 1
    /\ a.stats.extents_i[1] > a.stats.extents_i[0]
    /\ Len(a.c) = required_size(a.stats)
    /\ Copy(a, ColumnMajorView(Filled(Len(a.c), -2), a.stats.extents_i),
            FALSE) # Undefined
    /\ Copy(a, ColumnMajorView(Filled(Len(a.c), -2), a.stats.extents_i),
            FALSE) # a.c

\* ======================================= multiarray: the errors reported
\* The setters and at called with every kind of argument, the arguments of
\* the last call kept next to the exception it threw.

\* the last call on a, its arguments and the exception it threw
Reported(op, args, thrown) == [op |-> op, args |-> args, thrown |-> thrown]

InitErrors ==
    /\ a = multiarray(ContainerA)
    /\ b = multiarray(<<>>)
    /\ last = Reported("multiarray", <<>>, None)

\* extents( e )
report_extents(e) ==
    LET r == do_extents(a.stats, e)
    IN  /\ a' = [a EXCEPT !.stats = r.stats]
        /\ last' = Reported("extents", <<e>>, r.thrown)
        /\ UNCHANGED b

\* priorities( p )
report_priorities(p) ==
    LET r == do_priorities(a.stats, p)
    IN  /\ a' = [a EXCEPT !.stats = r.stats]
        /\ last' = Reported("priorities", <<p>>, r.thrown)
        /\ UNCHANGED b

\* extents_and_priorities( e, p )
report_extents_and_priorities(e, p) ==
    LET r == do_extents_and_priorities(a.stats, e, p)
    IN  /\ a' = [a EXCEPT !.stats = r.stats]
        /\ last' = Reported("extents_and_priorities", <<e, p>>, r.thrown)
        /\ UNCHANGED b

\* at( i )
report_at(i) ==
    /\ last' = Reported("at", <<i>>, do_access(a, i, TRUE).thrown)
    /\ UNCHANGED <<a, b>>

NextErrors ==
    \/ \E e \in ExtInputs : report_extents(e)
    \/ \E p \in PriInputs : report_priorities(p)
    \/ \E e \in ExtInputs, p \in PriInputs :
          report_extents_and_priorities(e, p)
    \/ \E i \in IdxInputs : report_at(i)

SpecErrors == InitErrors /\ [][NextErrors]_vars

\* ------------------------------------------------------------------- C30
\* the defects of an argument
ZeroExtent(e) == \E d \in Dims : e[d] = 0
HugeExtent(e) == \E d \in Dims : e[d] = SizeMax
TooManyElements(e) == Product(e, Dims) > SizeMax
PriorityOutOfRange(p) == \E d \in Dims : p[d] \notin Dims
WrongArity(i) == Len(i) # Rank
IndexOutOfRange(stats, i) ==
    \E k \in 1 .. Len(i) : k <= Rank /\ i[k] >= stats.extents_i[k - 1]

\* the error a list of extents must lead to
ExtentsError(e) ==
    IF ZeroExtent(e) THEN "out_of_range"
    ELSE IF TooManyElements(e) THEN "overflow_error"
    ELSE None

\* the error a list of priorities must lead to
PrioritiesError(p) ==
    IF PriorityOutOfRange(p) THEN "out_of_range"
    ELSE IF ~IsPermutationOfDims(p) THEN "invalid_argument"
    ELSE None

====
